---- MODULE Spec2Model ----
(***************************************************************************)
(* Model of the simulation engine of go-game (src/game.go): the game       *)
(* state, the tick (Update), the user operations (StartRun, BuyWorker,     *)
(* UpgradeWorker, buy-mode toggle) and the snapshot codec (snapshot,       *)
(* applySnapshot, SaveToFile, LoadFromFile).                               *)
(*                                                                         *)
(* SpecPlay is the engine alone, Spec the engine with its save file,       *)
(* SpecCost the upgrade-cost function, SpecExample the worked example of   *)
(* the run cycle and SpecChain the engine on a three-worker industry.      *)
(*                                                                         *)
(* Time is counted in whole ticks.  Go maps are functions over the set of  *)
(* keys present; a read of an absent key yields 0 (Get).  The upgrade      *)
(* multiplier, a float64 in the source, is a fraction <<num, den>> whose   *)
(* denominator is a power of two, so every power and product computed here *)
(* is exact in float64 as well.                                            *)
(***************************************************************************)
EXTENDS Integers, Sequences, FiniteSets, TLC

\* ------------------------------------------------------------------ bounds
MaxTime == 2
MaxOwned == 2
MaxTier == 3
MaxAmount == 4
MaxSteps == 5
MaxBase == 5
MaxCalcTier == 4
MaxExampleTime == 6
MaxBuildIndustries == 6
MaxBuildWorkers == 2
MaxSavedOwned == 1
MaxSavedTier == 2
MaxRate == 2
MaxQuant == 2
MaxCatchupTime == 4
MaxAutoRate == 3
MaxDelta == 3

\* math.MaxInt, the "no constraining resource" sentinel of maxAffordable
\* (the largest integer of the model checker's arithmetic).
MaxInt == 2147483647

\* time.Time{}: the zero time, before every time the clock can show.
ZeroTime == -1

\* ------------------------------------------------------------ definitions
\* The validated definition set handed to BuildGame (GameConfig).  Every
\* cost table has a positive "coins" entry (LoadConfig sets it from level).
\* The miner produces the primary resource of its industry and the driller
\* another worker of its industry; the cutter has a zero-cost entry and
\* produces something that is neither the primary resource of its industry
\* nor a worker of it: "miner" names a worker of the other industry.
cfg ==
  [ StartingResources |-> ("coins" :> 3),
    StartingProduction |-> << [Resource |-> "ore", ProdRate |-> 1, ProdQuant |-> 1],
                              [Resource |-> "gem", ProdRate |-> 2, ProdQuant |-> 1] >>,
    Industries |-> <<
      [ Key |-> "coal", Resource |-> "coal",
        Workers |-> <<
          [ Key |-> "miner", Produces |-> "coal", ProdRate |-> 1, ProdQuant |-> 2,
            UpgradeMult |-> <<2, 1>>, AutoTier |-> 2, Cost |-> ("coins" :> 1) ],
          [ Key |-> "driller", Produces |-> "miner", ProdRate |-> 1, ProdQuant |-> 1,
            UpgradeMult |-> <<3, 2>>, AutoTier |-> 0,
            Cost |-> ("coins" :> 1) @@ ("coal" :> 1) ] >> ],
      [ Key |-> "wood", Resource |-> "wood",
        Workers |-> <<
          [ Key |-> "cutter", Produces |-> "miner", ProdRate |-> 2, ProdQuant |-> 1,
            UpgradeMult |-> <<1, 1>>, AutoTier |-> 1,
            Cost |-> ("coins" :> 2) @@ ("wood" :> 0) ] >> ] >> ]

\* The definition set of the worked example of the run cycle: one industry
\* with one worker of interval 1 s and quantity 25.  Under this definition
\* set a unit of time is half a second, so that an Update can fall at 1.5 s.
cfgExample ==
  [ StartingResources |-> ("coins" :> 1),
    StartingProduction |-> << >>,
    Industries |-> <<
      [ Key |-> "coal", Resource |-> "coal",
        Workers |-> <<
          [ Key |-> "miner", Produces |-> "coal", ProdRate |-> 2, ProdQuant |-> 25,
            UpgradeMult |-> <<2, 1>>, AutoTier |-> 2, Cost |-> ("coins" :> 1) ] >> ] >> ]

\* A definition set with a production chain inside one industry: the rig
\* produces the driller, listed before it, and the driller becomes auto at
\* tier 2.
cfgChain ==
  [ StartingResources |-> ("coins" :> 2),
    StartingProduction |-> << >>,
    Industries |-> <<
      [ Key |-> "coal", Resource |-> "coal",
        Workers |-> <<
          [ Key |-> "miner", Produces |-> "coal", ProdRate |-> 1, ProdQuant |-> 1,
            UpgradeMult |-> <<2, 1>>, AutoTier |-> 0, Cost |-> ("coins" :> 1) ],
          [ Key |-> "driller", Produces |-> "miner", ProdRate |-> 1, ProdQuant |-> 1,
            UpgradeMult |-> <<2, 1>>, AutoTier |-> 2, Cost |-> ("coins" :> 1) ],
          [ Key |-> "rig", Produces |-> "driller", ProdRate |-> 1, ProdQuant |-> 1,
            UpgradeMult |-> <<2, 1>>, AutoTier |-> 0, Cost |-> ("coins" :> 1) ] >> ] >> ]

\* A definition set in which a producer is listed before its target: the rig
\* produces the driller, listed after it, and the driller becomes auto at
\* tier 2.
cfgFeed ==
  [ StartingResources |-> ("coins" :> 2),
    StartingProduction |-> << >>,
    Industries |-> <<
      [ Key |-> "coal", Resource |-> "coal",
        Workers |-> <<
          [ Key |-> "rig", Produces |-> "driller", ProdRate |-> 1, ProdQuant |-> 1,
            UpgradeMult |-> <<2, 1>>, AutoTier |-> 0, Cost |-> ("coins" :> 1) ],
          [ Key |-> "driller", Produces |-> "coal", ProdRate |-> 1, ProdQuant |-> 1,
            UpgradeMult |-> <<2, 1>>, AutoTier |-> 2, Cost |-> ("coins" :> 1) ] >> ] >> ]

VARIABLES
  g,      \* the GameState: Industries, Resources, Production, BuyModeMax, DevMode
  clock,  \* the latest time.Now() handed to the engine
  file,   \* the content of the save file (NoFile before the first save)
  last,   \* the latest operation: its name, arguments and returned status
  steps,  \* the number of operations performed (counted under Spec only)
  calc,   \* inputs and results of the cost calculator (SpecCost only)
  defset, \* the definition set handed to BuildGame
  ui,     \* UI.Run: the control loop, the input reader and their channels
  catchup, \* one call of PassiveProductionState.apply, statement by statement
  cycle   \* the productions of the worker under observation (SpecAuto only)

vars == <<g, clock, file, last, steps, calc, defset, ui, catchup, cycle>>

\* BuildGame's nil result, and the user interface before UI.Run is called.
NoGame == [nil |-> TRUE]
NoUI == [loop |-> "none", reader |-> "none"]
NoCatchup == [pc |-> "none"]
NoCycle == [produced |-> FALSE, parity |-> 0, since |-> 0, gap |-> 0]

\* The save file: no file, or <<content>>.
NoFile == << >>

\* ------------------------------------------------------------------ helpers
\* resources[key] on a Go map: the zero value when the key is absent.
Get(m, key) == IF key \in DOMAIN m THEN m[key] ELSE 0

\* m[key] = value on a Go map: the key is created when absent.
Put(m, key, value) == [k \in DOMAIN m \cup {key} |-> IF k = key THEN value ELSE m[k]]

\* Go's integer division truncates toward zero.
GoDiv(a, b) ==
  IF a >= 0 THEN a \div b ELSE -((-a) \div b)

minInt(a, b) == IF a < b THEN a ELSE b

maxInt(a, b) == IF a > b THEN a ELSE b

RECURSIVE IntPow(_, _)
IntPow(b, e) == IF e = 0 THEN 1 ELSE b * IntPow(b, e - 1)

\* math.Ceil(num / den) for num >= 0, den > 0.
Ceil(num, den) == (num + den - 1) \div den

NumIndustries(st) == Len(st.Industries)
NumWorkers(st, i) == Len(st.Industries[i].Workers)
WorkerAt(st, i, w) == st.Industries[i].Workers[w]
PositionsOf(st) ==
  UNION {{<<i, w>> : w \in 1..NumWorkers(st, i)} : i \in 1..NumIndustries(st)}

\* ------------------------------------------------------------------ economy
\* Mutant: compares the balance with 0 instead of the required amount.
canAffordNonNegative(cost, resources) ==
  \A resource \in DOMAIN cost : ~(Get(resources, resource) < 0)

\* Mutant: one affordable resource is enough.
canAffordAny(cost, resources) ==
  \E resource \in DOMAIN cost : ~(Get(resources, resource) < cost[resource])

canAfford(cost, resources) ==
  \A resource \in DOMAIN cost : ~(Get(resources, resource) < cost[resource])

RECURSIVE maxAffordableLoop(_, _, _, _)
maxAffordableLoop(todo, cost, resources, limit) ==
  IF todo = {} THEN limit
  ELSE LET resource == CHOOSE r \in todo : TRUE
           amount == cost[resource]
       IN IF amount <= 0
          THEN maxAffordableLoop(todo \ {resource}, cost, resources, limit)
          ELSE maxAffordableLoop(todo \ {resource}, cost, resources,
                                 minInt(limit, GoDiv(Get(resources, resource), amount)))

\* Mutant: only the "coins" entry of the cost table constrains the count.
maxAffordableFirst(cost, resources) ==
  LET limit == maxAffordableLoop(DOMAIN cost \cap {"coins"}, cost, resources, MaxInt)
  IN IF limit = MaxInt THEN 0 ELSE limit

maxAffordable(cost, resources) ==
  LET limit == maxAffordableLoop(DOMAIN cost, cost, resources, MaxInt)
  IN IF limit = MaxInt THEN 0 ELSE limit

\* Mutant: the exponent is tier instead of tier - 1.
scaledCostTier(base, multiplier, tier) ==
  LET e == maxInt(tier, 0)
      fnum == IntPow(multiplier[1], e)
      fden == IntPow(multiplier[2], e)
  IN [resource \in DOMAIN base |-> Ceil(base[resource] * fnum, fden)]

\* Mutant: the tier is ignored, the base cost is scaled once.
scaledCostFlat(base, multiplier, tier) ==
  [resource \in DOMAIN base |-> Ceil(base[resource] * multiplier[1], multiplier[2])]

scaledCost(base, multiplier, tier) ==
  LET e == maxInt(tier - 1, 0)
      fnum == IntPow(multiplier[1], e)
      fden == IntPow(multiplier[2], e)
  IN [resource \in DOMAIN base |-> Ceil(base[resource] * fnum, fden)]

\* Mutant: the unit cost is debited once, whatever the count.
RECURSIVE DebitOnce(_, _, _, _)
DebitOnce(todo, cost, count, resources) ==
  IF todo = {} THEN resources
  ELSE LET resource == CHOOSE r \in todo : TRUE
       IN DebitOnce(todo \ {resource}, cost, count,
                    Put(resources, resource, Get(resources, resource) - cost[resource]))

\* for resource, amount := range cost { resources[resource] -= amount * count }
RECURSIVE Debit(_, _, _, _)
Debit(todo, cost, count, resources) ==
  IF todo = {} THEN resources
  ELSE LET resource == CHOOSE r \in todo : TRUE
       IN Debit(todo \ {resource}, cost, count,
                Put(resources, resource, Get(resources, resource) - cost[resource] * count))

\* ------------------------------------------------------------- construction
buildPassiveProduction(definitions) ==
  [index \in 1..Len(definitions) |->
     [Definition |-> definitions[index], NextAt |-> 0 + definitions[index].ProdRate]]

BuildGame(config) ==
  [ Industries |->
      [i \in 1..Len(config.Industries) |->
         [ Key |-> config.Industries[i].Key,
           Resource |-> config.Industries[i].Resource,
           Workers |->
             [index \in 1..Len(config.Industries[i].Workers) |->
                [ Definition |-> config.Industries[i].Workers[index],
                  Owned |-> IF index = 1 THEN 1 ELSE 0,
                  Tier |-> 1,
                  Running |-> FALSE,
                  EndsAt |-> ZeroTime,
                  Auto |-> FALSE ]] ]],
    Resources |-> config.StartingResources,
    Production |-> buildPassiveProduction(config.StartingProduction),
    BuyModeMax |-> FALSE,
    DevMode |-> FALSE ]

\* Mutant: the cap on the number of industries is 6.
BuildGameResultCap6(definitions) ==
  IF Len(definitions.Industries) > 6
  THEN [g |-> NoGame, err |-> "too many industries"]
  ELSE [g |-> BuildGame(definitions), err |-> "nil"]

\* BuildGame with its error result: no game for more than 5 industries.
BuildGameResult(definitions) ==
  IF Len(definitions.Industries) > 5
  THEN [g |-> NoGame, err |-> "too many industries"]
  ELSE [g |-> BuildGame(definitions), err |-> "nil"]

\* --------------------------------------------------------------------- tick
\* PassiveProductionState.apply: returns the producer and the ledger.
RECURSIVE applyLoop(_, _, _)
applyLoop(p, now, resources) ==
  IF ~(now < p.NextAt)
  THEN applyLoop([p EXCEPT !.NextAt = p.NextAt + p.Definition.ProdRate], now,
                 Put(resources, p.Definition.Resource,
                     Get(resources, p.Definition.Resource) + p.Definition.ProdQuant))
  ELSE [p |-> p, resources |-> resources]

\* Mutant: one credit per tick, no catch-up loop.
applyOnce(p, now, resources) ==
  IF now < p.NextAt THEN [p |-> p, resources |-> resources]
  ELSE IF p.Definition.ProdRate <= 0 \/ p.Definition.ProdQuant <= 0
       THEN [p |-> p, resources |-> resources]
       ELSE [p |-> [p EXCEPT !.NextAt = p.NextAt + p.Definition.ProdRate],
             resources |-> Put(resources, p.Definition.Resource,
                               Get(resources, p.Definition.Resource) + p.Definition.ProdQuant)]

apply(p, now, resources) ==
  IF now < p.NextAt THEN [p |-> p, resources |-> resources]
  ELSE IF p.Definition.ProdRate <= 0 \/ p.Definition.ProdQuant <= 0
       THEN [p |-> p, resources |-> resources]
       ELSE applyLoop(p, now, resources)

RECURSIVE applyAll(_, _, _)
applyAll(st, now, index) ==
  IF index > Len(st.Production) THEN st
  ELSE LET r == apply(st.Production[index], now, st.Resources)
       IN applyAll([st EXCEPT !.Production[index] = r.p, !.Resources = r.resources],
                   now, index + 1)

\* findWorkerIndex: the first worker with the key, 0 when there is none.
findWorkerIndex(workers, key) ==
  LET hits == {index \in 1..Len(workers) : workers[index].Definition.Key = key}
  IN IF hits = {} THEN 0 ELSE CHOOSE index \in hits : \A other \in hits : index <= other

\* Mutant: the produced amount ignores the owned-count.
applyProductionFlat(st, i, w) ==
  LET industry == st.Industries[i]
      worker == industry.Workers[w]
      produced == worker.Definition.ProdQuant
      targetIndex == findWorkerIndex(industry.Workers, worker.Definition.Produces)
  IN IF worker.Owned = 0 THEN st
     ELSE IF targetIndex # 0
          THEN [st EXCEPT !.Industries[i].Workers[targetIndex].Owned = @ + produced]
          ELSE [st EXCEPT !.Resources =
                  Put(@, worker.Definition.Produces,
                      Get(@, worker.Definition.Produces) + produced)]

\* Mutant: the target is looked up among the workers of every industry.
applyProductionGlobal(st, i, w) ==
  LET worker == WorkerAt(st, i, w)
      produced == worker.Definition.ProdQuant * worker.Owned
      hits == {pos \in PositionsOf(st) :
                 WorkerAt(st, pos[1], pos[2]).Definition.Key = worker.Definition.Produces}
  IN IF worker.Owned = 0 THEN st
     ELSE IF hits # {}
          THEN LET pos == CHOOSE pos \in hits : TRUE
               IN [st EXCEPT !.Industries[pos[1]].Workers[pos[2]].Owned = @ + produced]
          ELSE [st EXCEPT !.Resources =
                  Put(@, worker.Definition.Produces,
                      Get(@, worker.Definition.Produces) + produced)]

\* Mutant: a produced worker's owned-count is lowered by the produced amount.
applyProductionMinus(st, i, w) ==
  LET industry == st.Industries[i]
      worker == industry.Workers[w]
      produced == worker.Definition.ProdQuant * worker.Owned
      targetIndex == findWorkerIndex(industry.Workers, worker.Definition.Produces)
  IN IF worker.Owned = 0 THEN st
     ELSE IF targetIndex # 0
          THEN [st EXCEPT !.Industries[i].Workers[targetIndex].Owned = @ - produced]
          ELSE [st EXCEPT !.Resources =
                  Put(@, worker.Definition.Produces,
                      Get(@, worker.Definition.Produces) + produced)]

applyProduction(st, i, w) ==
  LET industry == st.Industries[i]
      worker == industry.Workers[w]
      produced == worker.Definition.ProdQuant * worker.Owned
      targetIndex == findWorkerIndex(industry.Workers, worker.Definition.Produces)
  IN IF worker.Owned = 0 THEN st
     ELSE IF targetIndex # 0
          THEN [st EXCEPT !.Industries[i].Workers[targetIndex].Owned = @ + produced]
          ELSE IF worker.Definition.Produces = industry.Resource
               THEN [st EXCEPT !.Resources =
                       Put(@, industry.Resource, Get(@, industry.Resource) + produced)]
               ELSE [st EXCEPT !.Resources =
                       Put(@, worker.Definition.Produces,
                           Get(@, worker.Definition.Produces) + produced)]

\* Mutant: an auto worker's next cycle is counted from the end of the last.
UpdateWorkerNoDrift(st, now, i, w) ==
  LET worker == WorkerAt(st, i, w)
      started == IF worker.Auto /\ ~worker.Running /\ worker.Owned > 0
                 THEN [st EXCEPT !.Industries[i].Workers[w].Running = TRUE,
                                 !.Industries[i].Workers[w].EndsAt =
                                     now + worker.Definition.ProdRate]
                 ELSE st
      w1 == WorkerAt(started, i, w)
  IN IF ~w1.Running THEN started
     ELSE IF now < w1.EndsAt THEN started
     ELSE LET produced == applyProduction(started, i, w)
              stopped == [produced EXCEPT !.Industries[i].Workers[w].Running = FALSE]
          IN IF WorkerAt(stopped, i, w).Auto
             THEN [stopped EXCEPT !.Industries[i].Workers[w].Running = TRUE,
                                  !.Industries[i].Workers[w].EndsAt =
                                      w1.EndsAt + WorkerAt(stopped, i, w).Definition.ProdRate]
             ELSE stopped

\* Mutant: a worker whose cycle has ended is left Running when it is not auto.
UpdateWorkerNoStop(st, now, i, w) ==
  LET worker == WorkerAt(st, i, w)
      started == IF worker.Auto /\ ~worker.Running /\ worker.Owned > 0
                 THEN [st EXCEPT !.Industries[i].Workers[w].Running = TRUE,
                                 !.Industries[i].Workers[w].EndsAt =
                                     now + worker.Definition.ProdRate]
                 ELSE st
      w1 == WorkerAt(started, i, w)
  IN IF ~w1.Running THEN started
     ELSE IF now < w1.EndsAt THEN started
     ELSE LET produced == applyProduction(started, i, w)
          IN IF WorkerAt(produced, i, w).Auto
             THEN [produced EXCEPT !.Industries[i].Workers[w].EndsAt =
                                      now + WorkerAt(produced, i, w).Definition.ProdRate]
             ELSE produced

\* Mutant: a worker catches up like a passive producer, one production for
\* every interval that has elapsed since its cycle-end.
UpdateWorkerCatchUp(st, now, i, w) ==
  LET worker == WorkerAt(st, i, w)
      started == IF worker.Auto /\ ~worker.Running /\ worker.Owned > 0
                 THEN [st EXCEPT !.Industries[i].Workers[w].Running = TRUE,
                                 !.Industries[i].Workers[w].EndsAt =
                                     now + worker.Definition.ProdRate]
                 ELSE st
      w1 == WorkerAt(started, i, w)
  IN IF ~w1.Running THEN started
     ELSE IF now < w1.EndsAt THEN started
     ELSE LET once == applyProduction(started, i, w)
              produced == IF now - w1.EndsAt >= w1.Definition.ProdRate
                          THEN applyProduction(once, i, w)
                          ELSE once
              stopped == [produced EXCEPT !.Industries[i].Workers[w].Running = FALSE]
          IN IF WorkerAt(stopped, i, w).Auto
             THEN [stopped EXCEPT !.Industries[i].Workers[w].Running = TRUE,
                                  !.Industries[i].Workers[w].EndsAt =
                                      now + WorkerAt(stopped, i, w).Definition.ProdRate]
             ELSE stopped

\* Mutant: the auto flag is ignored, a worker runs only when it is started.
UpdateWorkerManual(st, now, i, w) ==
  LET w1 == WorkerAt(st, i, w)
  IN IF ~w1.Running THEN st
     ELSE IF now < w1.EndsAt THEN st
     ELSE [applyProduction(st, i, w) EXCEPT !.Industries[i].Workers[w].Running = FALSE]

\* The body of Update's inner loop for one worker.
UpdateWorker(st, now, i, w) ==
  LET worker == WorkerAt(st, i, w)
      started == IF worker.Auto /\ ~worker.Running /\ worker.Owned > 0
                 THEN [st EXCEPT !.Industries[i].Workers[w].Running = TRUE,
                                 !.Industries[i].Workers[w].EndsAt =
                                     now + worker.Definition.ProdRate]
                 ELSE st
      w1 == WorkerAt(started, i, w)
  IN IF ~w1.Running THEN started
     ELSE IF now < w1.EndsAt THEN started
     ELSE LET produced == applyProduction(started, i, w)
              stopped == [produced EXCEPT !.Industries[i].Workers[w].Running = FALSE]
          IN IF WorkerAt(stopped, i, w).Auto
             THEN [stopped EXCEPT !.Industries[i].Workers[w].Running = TRUE,
                                  !.Industries[i].Workers[w].EndsAt =
                                      now + WorkerAt(stopped, i, w).Definition.ProdRate]
             ELSE stopped

RECURSIVE UpdateWorkers(_, _, _, _)
UpdateWorkers(st, now, i, w) ==
  IF i > NumIndustries(st) THEN st
  ELSE IF w > NumWorkers(st, i) THEN UpdateWorkers(st, now, i + 1, 1)
  ELSE UpdateWorkers(UpdateWorker(st, now, i, w), now, i, w + 1)

UpdateResult(st, now) == UpdateWorkers(applyAll(st, now, 1), now, 1, 1)

\* ------------------------------------------------------------ user operations
\* Mutant: a Running worker is started again.
StartRunResultRestart(st, i, w, now) ==
  LET worker == WorkerAt(st, i, w)
  IN IF worker.Owned = 0 THEN [g |-> st, status |-> "need at least 1 worker"]
     ELSE [g |-> [st EXCEPT !.Industries[i].Workers[w].Running = TRUE,
                            !.Industries[i].Workers[w].EndsAt =
                                now + worker.Definition.ProdRate],
           status |-> "cycle started"]

\* Mutant: a worker nobody owns can be started.
StartRunResultUnowned(st, i, w, now) ==
  LET worker == WorkerAt(st, i, w)
  IN IF worker.Running THEN [g |-> st, status |-> "already running"]
     ELSE [g |-> [st EXCEPT !.Industries[i].Workers[w].Running = TRUE,
                            !.Industries[i].Workers[w].EndsAt =
                                now + worker.Definition.ProdRate],
           status |-> "cycle started"]

StartRunResult(st, i, w, now) ==
  LET worker == WorkerAt(st, i, w)
  IN IF worker.Owned = 0 THEN [g |-> st, status |-> "need at least 1 worker"]
     ELSE IF worker.Running THEN [g |-> st, status |-> "already running"]
     ELSE [g |-> [st EXCEPT !.Industries[i].Workers[w].Running = TRUE,
                            !.Industries[i].Workers[w].EndsAt =
                                now + worker.Definition.ProdRate],
           status |-> "cycle started"]

\* Mutant: no floor of 1 in developer mode.
BuyCountNoFloor(st, cost) ==
  IF st.BuyModeMax THEN maxAffordable(cost, st.Resources) ELSE 1

\* The value of count when BuyWorker reaches its count <= 0 test.
BuyCount(st, cost) ==
  IF st.DevMode
  THEN IF st.BuyModeMax
       THEN (IF maxAffordable(cost, st.Resources) < 1 THEN 1
             ELSE maxAffordable(cost, st.Resources))
       ELSE 1
  ELSE IF st.BuyModeMax THEN maxAffordable(cost, st.Resources)
  ELSE 1

\* Mutant: a purchase makes the buy mode single again.
BuyWorkerResultSingle(st, i, w) ==
  LET worker == WorkerAt(st, i, w)
      cost == worker.Definition.Cost
      count == BuyCount(st, cost)
  IN IF ~st.DevMode /\ ~st.BuyModeMax /\ ~canAfford(cost, st.Resources)
     THEN [g |-> st, status |-> "cannot afford", count |-> 1]
     ELSE IF count <= 0 THEN [g |-> st, status |-> "cannot afford", count |-> count]
     ELSE LET paid == IF ~st.DevMode
                      THEN [st EXCEPT !.Resources = Debit(DOMAIN cost, cost, count, @)]
                      ELSE st
          IN [g |-> [paid EXCEPT !.Industries[i].Workers[w].Owned = @ + count,
                                 !.BuyModeMax = FALSE],
              status |-> "bought", count |-> count]

BuyWorkerResult(st, i, w) ==
  LET worker == WorkerAt(st, i, w)
      cost == worker.Definition.Cost
      count == BuyCount(st, cost)
  IN IF ~st.DevMode /\ ~st.BuyModeMax /\ ~canAfford(cost, st.Resources)
     THEN [g |-> st, status |-> "cannot afford", count |-> 1]
     ELSE IF count <= 0 THEN [g |-> st, status |-> "cannot afford", count |-> count]
     ELSE LET paid == IF ~st.DevMode
                      THEN [st EXCEPT !.Resources = Debit(DOMAIN cost, cost, count, @)]
                      ELSE st
          IN [g |-> [paid EXCEPT !.Industries[i].Workers[w].Owned = @ + count],
              status |-> "bought", count |-> count]

\* Mutant: the auto flag is assigned from "tier equals threshold".
UpgradeWorkerResultEq(st, i, w) ==
  LET worker == WorkerAt(st, i, w)
      cost == scaledCost(worker.Definition.Cost, worker.Definition.UpgradeMult, worker.Tier)
  IN IF ~st.DevMode /\ ~canAfford(cost, st.Resources)
     THEN [g |-> st, status |-> "cannot afford upgrade"]
     ELSE LET paid == IF ~st.DevMode
                      THEN [st EXCEPT !.Resources = Debit(DOMAIN cost, cost, 1, @)]
                      ELSE st
              raised == [paid EXCEPT !.Industries[i].Workers[w].Tier = @ + 1]
          IN [g |-> [raised EXCEPT !.Industries[i].Workers[w].Auto =
                       (worker.Definition.AutoTier > 0
                        /\ WorkerAt(raised, i, w).Tier = worker.Definition.AutoTier)],
              status |-> "upgraded"]

\* Mutant: the latch does not ask for a positive threshold.
UpgradeWorkerResultAnyTier(st, i, w) ==
  LET worker == WorkerAt(st, i, w)
      cost == scaledCost(worker.Definition.Cost, worker.Definition.UpgradeMult, worker.Tier)
  IN IF ~st.DevMode /\ ~canAfford(cost, st.Resources)
     THEN [g |-> st, status |-> "cannot afford upgrade"]
     ELSE LET paid == IF ~st.DevMode
                      THEN [st EXCEPT !.Resources = Debit(DOMAIN cost, cost, 1, @)]
                      ELSE st
              raised == [paid EXCEPT !.Industries[i].Workers[w].Tier = @ + 1]
          IN [g |-> IF WorkerAt(raised, i, w).Tier >= worker.Definition.AutoTier
                    THEN [raised EXCEPT !.Industries[i].Workers[w].Auto = TRUE]
                    ELSE raised,
              status |-> "upgraded"]

UpgradeWorkerResult(st, i, w) ==
  LET worker == WorkerAt(st, i, w)
      cost == scaledCost(worker.Definition.Cost, worker.Definition.UpgradeMult, worker.Tier)
  IN IF ~st.DevMode /\ ~canAfford(cost, st.Resources)
     THEN [g |-> st, status |-> "cannot afford upgrade"]
     ELSE LET paid == IF ~st.DevMode
                      THEN [st EXCEPT !.Resources = Debit(DOMAIN cost, cost, 1, @)]
                      ELSE st
              raised == [paid EXCEPT !.Industries[i].Workers[w].Tier = @ + 1]
          IN [g |-> IF worker.Definition.AutoTier > 0
                       /\ WorkerAt(raised, i, w).Tier >= worker.Definition.AutoTier
                    THEN [raised EXCEPT !.Industries[i].Workers[w].Auto = TRUE]
                    ELSE raised,
              status |-> "upgraded"]


\* ------------------------------------------------------------ snapshot codec
snapshot(st) ==
  [ Industries |->
      [i \in 1..Len(st.Industries) |->
         [ Key |-> st.Industries[i].Key,
           Workers |->
             [w \in 1..Len(st.Industries[i].Workers) |->
                [ Key |-> st.Industries[i].Workers[w].Definition.Key,
                  Owned |-> st.Industries[i].Workers[w].Owned,
                  Tier |-> st.Industries[i].Workers[w].Tier,
                  Auto |-> st.Industries[i].Workers[w].Auto ]] ]],
    Resources |-> st.Resources,
    NilResources |-> FALSE,
    Production |-> [index \in 1..Len(st.Production) |->
                      [NextAt |-> st.Production[index].NextAt]],
    BuyModeMax |-> st.BuyModeMax,
    DevMode |-> st.DevMode,
    Version |-> 1 ]

\* The lookup maps of applySnapshot are filled in list order, so the last
\* entry with a key is the one found; 0 when the key is absent.
Lookup(entries, key) ==
  LET hits == {index \in 1..Len(entries) : entries[index].Key = key}
  IN IF hits = {} THEN 0 ELSE CHOOSE index \in hits : \A other \in hits : index >= other

\* Mutant: a load takes the saved auto flag as it is.
RECURSIVE applyWorkersSavedFlag(_, _, _, _)
applyWorkersSavedFlag(st, savedIndustry, i, w) ==
  IF w > NumWorkers(st, i) THEN [g |-> st, err |-> "nil"]
  ELSE LET worker == WorkerAt(st, i, w)
           found == Lookup(savedIndustry.Workers, worker.Definition.Key)
       IN IF found = 0 THEN [g |-> st, err |-> "save missing worker"]
          ELSE LET savedWorker == savedIndustry.Workers[found]
               IN applyWorkersSavedFlag(
                    [st EXCEPT !.Industries[i].Workers[w] =
                       [ Definition |-> worker.Definition,
                         Owned |-> savedWorker.Owned,
                         Tier |-> savedWorker.Tier,
                         Auto |-> savedWorker.Auto,
                         Running |-> FALSE,
                         EndsAt |-> ZeroTime ]],
                    savedIndustry, i, w + 1)

\* Mutant: a load takes the saved worker at the live worker's position.
RECURSIVE applyWorkersByPosition(_, _, _, _)
applyWorkersByPosition(st, savedIndustry, i, w) ==
  IF w > NumWorkers(st, i) THEN [g |-> st, err |-> "nil"]
  ELSE LET worker == WorkerAt(st, i, w)
           found == Lookup(savedIndustry.Workers, worker.Definition.Key)
       IN IF found = 0 THEN [g |-> st, err |-> "save missing worker"]
          ELSE LET savedWorker == savedIndustry.Workers[w]
               IN applyWorkersByPosition(
                    [st EXCEPT !.Industries[i].Workers[w] =
                       [ Definition |-> worker.Definition,
                         Owned |-> savedWorker.Owned,
                         Tier |-> savedWorker.Tier,
                         Auto |-> savedWorker.Auto
                                  \/ (worker.Definition.AutoTier > 0
                                      /\ savedWorker.Tier >= worker.Definition.AutoTier),
                         Running |-> FALSE,
                         EndsAt |-> ZeroTime ]],
                    savedIndustry, i, w + 1)

\* Mutant: a load leaves the run state of the workers as it is.
RECURSIVE applyWorkersKeepRun(_, _, _, _)
applyWorkersKeepRun(st, savedIndustry, i, w) ==
  IF w > NumWorkers(st, i) THEN [g |-> st, err |-> "nil"]
  ELSE LET worker == WorkerAt(st, i, w)
           found == Lookup(savedIndustry.Workers, worker.Definition.Key)
       IN IF found = 0 THEN [g |-> st, err |-> "save missing worker"]
          ELSE LET savedWorker == savedIndustry.Workers[found]
               IN applyWorkersKeepRun(
                    [st EXCEPT !.Industries[i].Workers[w] =
                       [ Definition |-> worker.Definition,
                         Owned |-> savedWorker.Owned,
                         Tier |-> savedWorker.Tier,
                         Auto |-> savedWorker.Auto
                                  \/ (worker.Definition.AutoTier > 0
                                      /\ savedWorker.Tier >= worker.Definition.AutoTier),
                         Running |-> worker.Running,
                         EndsAt |-> worker.EndsAt ]],
                    savedIndustry, i, w + 1)

\* The inner loop of applySnapshot over the workers of live industry i,
\* writing each worker in place as it goes.
RECURSIVE applyWorkers(_, _, _, _)
applyWorkers(st, savedIndustry, i, w) ==
  IF w > NumWorkers(st, i) THEN [g |-> st, err |-> "nil"]
  ELSE LET worker == WorkerAt(st, i, w)
           found == Lookup(savedIndustry.Workers, worker.Definition.Key)
       IN IF found = 0 THEN [g |-> st, err |-> "save missing worker"]
          ELSE LET savedWorker == savedIndustry.Workers[found]
               IN applyWorkers(
                    [st EXCEPT !.Industries[i].Workers[w] =
                       [ Definition |-> worker.Definition,
                         Owned |-> savedWorker.Owned,
                         Tier |-> savedWorker.Tier,
                         Auto |-> savedWorker.Auto
                                  \/ (worker.Definition.AutoTier > 0
                                      /\ savedWorker.Tier >= worker.Definition.AutoTier),
                         Running |-> FALSE,
                         EndsAt |-> ZeroTime ]],
                    savedIndustry, i, w + 1)

\* The outer loop of applySnapshot over the live industries.
RECURSIVE applyIndustries(_, _, _)
applyIndustries(st, saved, i) ==
  IF i > NumIndustries(st) THEN [g |-> st, err |-> "nil"]
  ELSE LET found == Lookup(saved.Industries, st.Industries[i].Key)
       IN IF found = 0 THEN [g |-> st, err |-> "save missing industry"]
          ELSE LET r == applyWorkers(st, saved.Industries[found], i, 1)
               IN IF r.err # "nil" THEN r ELSE applyIndustries(r.g, saved, i + 1)

\* Mutant: the three checks are made after the worker loop has written.
applySnapshotLate(st, saved) ==
  LET r == applyIndustries(st, saved, 1)
  IN IF saved.NilResources THEN [g |-> r.g, err |-> "save missing resources"]
     ELSE IF Len(saved.Industries) # Len(st.Industries)
          THEN [g |-> r.g, err |-> "save industries mismatch"]
     ELSE IF Len(saved.Production) # Len(st.Production)
          THEN [g |-> r.g, err |-> "save production mismatch"]
     ELSE IF r.err # "nil" THEN r
     ELSE [g |-> [r.g EXCEPT
                    !.Resources = saved.Resources,
                    !.Production =
                       [index \in 1..Len(r.g.Production) |->
                          [r.g.Production[index] EXCEPT
                             !.NextAt = saved.Production[index].NextAt]],
                    !.BuyModeMax = saved.BuyModeMax,
                    !.DevMode = saved.DevMode],
           err |-> "nil"]

applySnapshot(st, saved) ==
  IF saved.NilResources THEN [g |-> st, err |-> "save missing resources"]
  ELSE IF Len(saved.Industries) # Len(st.Industries)
       THEN [g |-> st, err |-> "save industries mismatch"]
  ELSE IF Len(saved.Production) # Len(st.Production)
       THEN [g |-> st, err |-> "save production mismatch"]
  ELSE LET r == applyIndustries(st, saved, 1)
       IN IF r.err # "nil" THEN r
          ELSE [g |-> [r.g EXCEPT
                         !.Resources = saved.Resources,
                         !.Production =
                            [index \in 1..Len(r.g.Production) |->
                               [r.g.Production[index] EXCEPT
                                  !.NextAt = saved.Production[index].NextAt]],
                         !.BuyModeMax = saved.BuyModeMax,
                         !.DevMode = saved.DevMode],
                err |-> "nil"]

LoadFromFileResult(st, content) ==
  IF content = NoFile THEN [g |-> st, err |-> "read save"]
  ELSE applySnapshot(st, content[1])

\* What somebody with a text editor (or another release of the program)
\* makes of the save file between a save and a load.
EditKinds ==
  {"devMode", "dropWorker", "renameIndustry", "noResources", "dropIndustry",
   "dropProduction", "version"}

DropFirst(seq) == [index \in 1..(Len(seq) - 1) |-> seq[index + 1]]

DropLast(seq) == [index \in 1..(Len(seq) - 1) |-> seq[index]]

Edited(content, kind) ==
  CASE kind = "devMode" -> [content EXCEPT !.DevMode = TRUE]
    [] kind = "dropWorker" ->
         [content EXCEPT !.Industries[Len(content.Industries)].Workers = DropFirst(@)]
    [] kind = "renameIndustry" ->
         [content EXCEPT !.Industries[Len(content.Industries)].Key = "lumber"]
    [] kind = "noResources" -> [content EXCEPT !.NilResources = TRUE]
    [] kind = "dropIndustry" -> [content EXCEPT !.Industries = DropLast(@)]
    [] kind = "dropProduction" -> [content EXCEPT !.Production = DropLast(@)]
    [] kind = "version" -> [content EXCEPT !.Version = 2]

\* ---------------------------------------------------------------- the bounds
Bounded(st) ==
  /\ \A pos \in PositionsOf(st) :
       /\ WorkerAt(st, pos[1], pos[2]).Owned <= MaxOwned
       /\ WorkerAt(st, pos[1], pos[2]).Tier <= MaxTier
  /\ \A resource \in DOMAIN st.Resources : st.Resources[resource] <= MaxAmount

Op(name, i, w, status, count) ==
  [op |-> name, i |-> i, w |-> w, status |-> status, count |-> count]

NoCalc == [base |-> 0, multiplier |-> <<1, 1>>, tier |-> 0, cost |-> 0, next |-> 0]

\* ------------------------------------------------------------------ actions
Init ==
  /\ g = BuildGame(cfg)
  /\ defset = cfg
  /\ catchup = NoCatchup
  /\ cycle = NoCycle
  /\ ui = NoUI
  /\ clock = 0
  /\ file = NoFile
  /\ last = Op("BuildGame", 0, 0, "", 0)
  /\ steps = 0
  /\ calc = NoCalc

Update(now) ==
  /\ g' = UpdateResult(g, now)
  /\ Bounded(g')
  /\ clock' = now
  /\ last' = Op("Update", 0, 0, "", 0)
  /\ UNCHANGED <<file, calc>>

StartRun(i, w, now) ==
  LET r == StartRunResult(g, i, w, now)
  IN /\ g' = r.g
     /\ clock' = now
     /\ last' = Op("StartRun", i, w, r.status, 0)
     /\ UNCHANGED <<file, calc>>

BuyWorker(i, w) ==
  LET r == BuyWorkerResult(g, i, w)
  IN /\ g' = r.g
     /\ Bounded(g')
     /\ last' = Op("BuyWorker", i, w, r.status, r.count)
     /\ UNCHANGED <<clock, file, calc>>

UpgradeWorker(i, w) ==
  LET r == UpgradeWorkerResult(g, i, w)
  IN /\ g' = r.g
     /\ Bounded(g')
     /\ last' = Op("UpgradeWorker", i, w, r.status, 0)
     /\ UNCHANGED <<clock, file, calc>>

\* handleKey 'm': ui.game.BuyModeMax = !ui.game.BuyModeMax
ToggleBuyMode ==
  /\ g' = [g EXCEPT !.BuyModeMax = ~@]
  /\ last' = Op("ToggleBuyMode", 0, 0, "", 0)
  /\ UNCHANGED <<clock, file, calc>>

SaveToFile ==
  /\ file' = <<snapshot(g)>>
  /\ last' = Op("SaveToFile", 0, 0, "nil", 0)
  /\ UNCHANGED <<g, clock, calc>>

LoadFromFile ==
  LET r == LoadFromFileResult(g, file)
  IN /\ g' = r.g
     /\ Bounded(g')
     /\ last' = Op("LoadFromFile", 0, 0, r.err, 0)
     /\ UNCHANGED <<clock, file, calc>>

EditSaveFile(kind) ==
  /\ file # NoFile
  /\ Edited(file[1], kind) # file[1]
  /\ file' = <<Edited(file[1], kind)>>
  /\ last' = Op("EditSaveFile", 0, 0, kind, 0)
  /\ UNCHANGED <<g, clock, calc>>

Times == clock..MaxTime

\* The (industry, worker) selections the user interface can make.
Positions == PositionsOf(g)

\* One more operation of a bounded session / an operation that is not counted.
Counted == steps < MaxSteps /\ steps' = steps + 1 /\ UNCHANGED <<defset, ui, catchup, cycle>>
Uncounted == UNCHANGED <<steps, defset, ui, catchup, cycle>>

\* The engine alone: ticks and user operations, explored exhaustively.
NextPlay ==
  \/ \E now \in Times : Update(now) /\ Uncounted
  \/ \E pos \in Positions, now \in Times : StartRun(pos[1], pos[2], now) /\ Uncounted
  \/ \E pos \in Positions : BuyWorker(pos[1], pos[2]) /\ Uncounted
  \/ \E pos \in Positions : UpgradeWorker(pos[1], pos[2]) /\ Uncounted
  \/ ToggleBuyMode /\ Uncounted

SpecPlay == Init /\ [][NextPlay]_vars

\* The engine with its save file: sessions of at most MaxSteps operations.
Next ==
  \/ \E now \in Times : Update(now) /\ Counted
  \/ \E pos \in Positions, now \in Times : StartRun(pos[1], pos[2], now) /\ Counted
  \/ \E pos \in Positions : BuyWorker(pos[1], pos[2]) /\ Counted
  \/ \E pos \in Positions : UpgradeWorker(pos[1], pos[2]) /\ Counted
  \/ ToggleBuyMode /\ Counted
  \/ SaveToFile /\ Counted
  \/ LoadFromFile /\ Counted
  \/ \E kind \in EditKinds : EditSaveFile(kind) /\ Counted

Spec == Init /\ [][Next]_vars

\* The cost calculator alone: scaledCost applied to drawn inputs.
Multipliers == {<<1, 2>>, <<1, 1>>, <<5, 4>>, <<3, 2>>, <<2, 1>>, <<3, 1>>}
Bases == (1..MaxBase) \cup {10}

InitCost ==
  /\ g = BuildGame(cfg)
  /\ defset = cfg
  /\ catchup = NoCatchup
  /\ cycle = NoCycle
  /\ ui = NoUI
  /\ clock = 0
  /\ file = NoFile
  /\ last = Op("BuildGame", 0, 0, "", 0)
  /\ steps = 0
  /\ calc \in [base : Bases, multiplier : Multipliers, tier : 1..MaxCalcTier,
               cost : {0}, next : {0}]

\* The cost of the upgrade at calc.tier and of the one after it.
Calc ==
  /\ calc.cost = 0
  /\ calc' = [calc EXCEPT
                !.cost = scaledCost("coins" :> calc.base, calc.multiplier, calc.tier)["coins"],
                !.next = scaledCost("coins" :> calc.base, calc.multiplier,
                                    calc.tier + 1)["coins"]]
  /\ UNCHANGED <<g, clock, file, last, steps, defset, ui, catchup, cycle>>

NextCost == Calc

SpecCost == InitCost /\ [][NextCost]_vars

\* The worked example: the game of cfgExample, its one worker upgraded,
\* started and ticked at any half second up to MaxExampleTime (amounts and
\* tiers are bounded by the time and the one coin).
InitExample ==
  /\ g = BuildGame(cfgExample)
  /\ defset = cfgExample
  /\ catchup = NoCatchup
  /\ cycle = NoCycle
  /\ ui = NoUI
  /\ clock = 0
  /\ file = NoFile
  /\ last = Op("BuildGame", 0, 0, "", 0)
  /\ steps = 0
  /\ calc = NoCalc

ExampleTimes == clock..MaxExampleTime

UpdateAny(now) ==
  /\ g' = UpdateResult(g, now)
  /\ clock' = now
  /\ last' = Op("Update", 0, 0, "", 0)
  /\ UNCHANGED <<file, calc>>

UpgradeWorkerAny(i, w) ==
  LET r == UpgradeWorkerResult(g, i, w)
  IN /\ g' = r.g
     /\ last' = Op("UpgradeWorker", i, w, r.status, 0)
     /\ UNCHANGED <<clock, file, calc>>

NextExample ==
  \/ \E now \in ExampleTimes : UpdateAny(now) /\ Uncounted
  \/ \E now \in ExampleTimes : StartRun(1, 1, now) /\ Uncounted
  \/ UpgradeWorkerAny(1, 1) /\ Uncounted

SpecExample == InitExample /\ [][NextExample]_vars

\* The engine alone on the game of cfgChain.
InitChain ==
  /\ g = BuildGame(cfgChain)
  /\ defset = cfgChain
  /\ catchup = NoCatchup
  /\ cycle = NoCycle
  /\ ui = NoUI
  /\ clock = 0
  /\ file = NoFile
  /\ last = Op("BuildGame", 0, 0, "", 0)
  /\ steps = 0
  /\ calc = NoCalc

SpecChain == InitChain /\ [][NextPlay]_vars

\* The engine alone on the game of cfgFeed.
InitFeed ==
  /\ g = BuildGame(cfgFeed)
  /\ defset = cfgFeed
  /\ catchup = NoCatchup
  /\ cycle = NoCycle
  /\ ui = NoUI
  /\ clock = 0
  /\ file = NoFile
  /\ last = Op("BuildGame", 0, 0, "", 0)
  /\ steps = 0
  /\ calc = NoCalc

SpecFeed == InitFeed /\ [][NextPlay]_vars

\* Construction alone: BuildGame on definition sets of 0..MaxBuildIndustries
\* industries with 0..MaxBuildWorkers workers each.
IndustryKeys == <<"i1", "i2", "i3", "i4", "i5", "i6", "i7", "i8">>
WorkerPool == cfgChain.Industries[1].Workers
StartingLedgers == {<< >>, "coins" :> 3, ("coins" :> 0) @@ ("coal" :> 2)}
StartingProducers == {<< >>, cfg.StartingProduction}

\* Industry i of a drawn definition set has (i + shift) modulo
\* (MaxBuildWorkers + 1) workers.
DefinitionSets ==
  { [ StartingResources |-> ledger,
      StartingProduction |-> producers,
      Industries |->
        [i \in 1..n |->
           [ Key |-> IndustryKeys[i], Resource |-> IndustryKeys[i],
             Workers |-> SubSeq(WorkerPool, 1, (i + shift) % (MaxBuildWorkers + 1)) ]] ] :
    n \in 0..MaxBuildIndustries, shift \in 0..MaxBuildWorkers,
    ledger \in StartingLedgers, producers \in StartingProducers }

InitBuild ==
  /\ defset \in DefinitionSets
  /\ catchup = NoCatchup
  /\ cycle = NoCycle
  /\ g = NoGame
  /\ clock = 0
  /\ file = NoFile
  /\ last = Op("main", 0, 0, "", 0)
  /\ steps = 0
  /\ calc = NoCalc
  /\ ui = NoUI

Build ==
  /\ last.op = "main"
  /\ LET r == BuildGameResult(defset)
     IN /\ g' = r.g
        /\ last' = Op("BuildGame", 0, 0, r.err, 0)
  /\ UNCHANGED <<clock, file, steps, calc, defset, ui, catchup, cycle>>

NextBuild == Build

SpecBuild == InitBuild /\ [][NextBuild]_vars

\* ------------------------------------------------------------ user interface
\* UI.Run on the game of cfgExample.  The control loop draws, then takes a
\* tick or an event; the input reader evaluates screen.PollEvent() and then
\* either hands the event to the loop (the channel is unbuffered: the hand
\* over is one step of both) or sees done closed.  When handleKey returns
\* true the loop runs its deferred calls: close(done), tick.Stop(),
\* ui.Close().  PollEvent returns a user event, or nil once the screen is
\* finalized by ui.Close().
Keys == {"esc", "b", "r", "u", "m", "q", "t", "y", "move", "resize"}

\* runLowestAvailable: StartRun on the first worker of the active industry
\* that is neither auto nor Running and is owned.
runLowestAvailable(st, i, now) ==
  LET hits == {index \in 1..NumWorkers(st, i) :
                 /\ ~(WorkerAt(st, i, index).Auto \/ WorkerAt(st, i, index).Running)
                 /\ WorkerAt(st, i, index).Owned # 0}
  IN IF hits = {} THEN [g |-> st, status |-> "no manual workers available"]
     ELSE StartRunResult(st, i, CHOOSE index \in hits : \A other \in hits : index <= other,
                         now)
\* Mutant: save and load are not guarded by developer mode.
handleKeyUnguarded(st, content, key, i, w, now) ==
  CASE key = "esc" -> [g |-> st, file |-> content, quit |-> TRUE]
    [] key = "b" -> [g |-> BuyWorkerResult(st, i, w).g, file |-> content, quit |-> FALSE]
    [] key = "r" -> [g |-> StartRunResult(st, i, w, now).g, file |-> content, quit |-> FALSE]
    [] key = "u" -> [g |-> UpgradeWorkerResult(st, i, w).g, file |-> content, quit |-> FALSE]
    [] key = "m" -> [g |-> [st EXCEPT !.BuyModeMax = ~@], file |-> content, quit |-> FALSE]
    [] key = "q" -> [g |-> runLowestAvailable(st, i, now).g, file |-> content, quit |-> FALSE]
    [] key = "t" -> [g |-> st, file |-> <<snapshot(st)>>, quit |-> FALSE]
    [] key = "y" -> [g |-> LoadFromFileResult(st, content).g,
                     file |-> content, quit |-> FALSE]
    [] OTHER -> [g |-> st, file |-> content, quit |-> FALSE]

\* The event switch of UI.Run with handleKey: the game, the save file and
\* whether the loop returns.
handleKey(st, content, key, i, w, now) ==
  CASE key = "esc" -> [g |-> st, file |-> content, quit |-> TRUE]
    [] key = "b" -> [g |-> BuyWorkerResult(st, i, w).g, file |-> content, quit |-> FALSE]
    [] key = "r" -> [g |-> StartRunResult(st, i, w, now).g, file |-> content, quit |-> FALSE]
    [] key = "u" -> [g |-> UpgradeWorkerResult(st, i, w).g, file |-> content, quit |-> FALSE]
    [] key = "m" -> [g |-> [st EXCEPT !.BuyModeMax = ~@], file |-> content, quit |-> FALSE]
    [] key = "q" -> [g |-> runLowestAvailable(st, i, now).g, file |-> content, quit |-> FALSE]
    [] key = "t" -> [g |-> st,
                     file |-> IF st.DevMode THEN content ELSE <<snapshot(st)>>,
                     quit |-> FALSE]
    [] key = "y" -> [g |-> IF st.DevMode THEN st ELSE LoadFromFileResult(st, content).g,
                     file |-> content, quit |-> FALSE]
    [] OTHER -> [g |-> st, file |-> content, quit |-> FALSE]

\* Mutant: the input reader handles the key itself.
ReaderEffectHandles(st, content, key, now) ==
  [g |-> handleKey(st, content, key, 1, 1, now).g,
   file |-> handleKey(st, content, key, 1, 1, now).file]

\* What the input reader does to the game and the save file with the event
\* it has polled: nothing, it only passes the event on.
ReaderEffect(st, content, key, now) == [g |-> st, file |-> content]

\* Mutant: PollEvent returns only when the user sends an event.
PollReturnsNilNever(finalized) == FALSE

\* PollEvent returns nil once the screen is finalized.
PollReturnsNil(finalized) == finalized

InitUI ==
  /\ g = BuildGame(cfgExample)
  /\ defset = cfgExample
  /\ catchup = NoCatchup
  /\ cycle = NoCycle
  /\ clock = 0
  /\ file = NoFile
  /\ last = Op("BuildGame", 0, 0, "", 0)
  /\ steps = 0
  /\ calc = NoCalc
  /\ ui = [loop |-> "draw", reader |-> "poll", ev |-> "none", tick |-> FALSE,
           done |-> FALSE, stopped |-> FALSE, finalized |-> FALSE,
           activeIndustry |-> 1, selectedWorker |-> 1, actor |-> "main"]

\* The ticker puts a tick into tick.C (capacity 1) until it is stopped.
TimerFires ==
  /\ ~ui.stopped /\ ~ui.tick
  /\ ui' = [ui EXCEPT !.tick = TRUE, !.actor = "timer"]
  /\ UNCHANGED <<g, clock, file, last, steps, calc, defset, catchup, cycle>>

LoopDraw ==
  /\ ui.loop = "draw"
  /\ ui' = [ui EXCEPT !.loop = "select", !.actor = "loop"]
  /\ last' = Op("draw", 0, 0, "", 0)
  /\ UNCHANGED <<g, clock, file, steps, calc, defset, catchup, cycle>>

LoopTick(now) ==
  /\ ui.loop = "select" /\ ui.tick
  /\ g' = UpdateResult(g, now)
  /\ clock' = now
  /\ ui' = [ui EXCEPT !.loop = "draw", !.tick = FALSE, !.actor = "loop"]
  /\ last' = Op("Update", 0, 0, "", 0)
  /\ UNCHANGED <<file, steps, calc, defset, catchup, cycle>>

LoopEvent(now) ==
  /\ ui.loop = "select" /\ ui.reader = "select" /\ ~ui.done
  /\ (ui.ev \notin {"r", "q"}) => now = clock
  /\ LET r == handleKey(g, file, ui.ev, ui.activeIndustry, ui.selectedWorker, now)
     IN /\ g' = r.g
        /\ file' = r.file
        /\ ui' = [ui EXCEPT !.loop = IF r.quit THEN "closeDone" ELSE "draw",
                            !.reader = "poll", !.ev = "none", !.actor = "loop"]
  /\ clock' = now
  /\ last' = Op("handleKey", 0, 0, ui.ev, 0)
  /\ UNCHANGED <<steps, calc, defset, catchup, cycle>>

\* The deferred calls of UI.Run, last deferred first.
LoopCloseDone ==
  /\ ui.loop = "closeDone"
  /\ ui' = [ui EXCEPT !.loop = "stopTick", !.done = TRUE, !.actor = "loop"]
  /\ UNCHANGED <<g, clock, file, last, steps, calc, defset, catchup, cycle>>

LoopStopTick ==
  /\ ui.loop = "stopTick"
  /\ ui' = [ui EXCEPT !.loop = "close", !.stopped = TRUE, !.actor = "loop"]
  /\ UNCHANGED <<g, clock, file, last, steps, calc, defset, catchup, cycle>>

LoopClose ==
  /\ ui.loop = "close"
  /\ ui' = [ui EXCEPT !.loop = "exited", !.finalized = TRUE, !.actor = "loop"]
  /\ UNCHANGED <<g, clock, file, last, steps, calc, defset, catchup, cycle>>

\* PollEvent returns the event the user has sent.
ReaderPollKey(key) ==
  /\ ui.reader = "poll" /\ ~ui.finalized
  /\ LET r == ReaderEffect(g, file, key, clock)
     IN g' = r.g /\ file' = r.file
  /\ ui' = [ui EXCEPT !.reader = "select", !.ev = key, !.actor = "reader"]
  /\ UNCHANGED <<clock, last, steps, calc, defset, catchup, cycle>>

ReaderPollNil ==
  /\ ui.reader = "poll" /\ PollReturnsNil(ui.finalized)
  /\ ui' = [ui EXCEPT !.reader = "select", !.ev = "nil", !.actor = "reader"]
  /\ UNCHANGED <<g, clock, file, last, steps, calc, defset, catchup, cycle>>

ReaderDone ==
  /\ ui.reader = "select" /\ ui.done
  /\ ui' = [ui EXCEPT !.reader = "stopped", !.actor = "reader"]
  /\ UNCHANGED <<g, clock, file, last, steps, calc, defset, catchup, cycle>>

NextUI ==
  \/ TimerFires
  \/ LoopDraw
  \/ \E now \in Times : LoopTick(now)
  \/ \E now \in Times : LoopEvent(now)
  \/ LoopCloseDone
  \/ LoopStopTick
  \/ LoopClose
  \/ \E key \in Keys : ReaderPollKey(key)
  \/ ReaderPollNil
  \/ ReaderDone

SpecUI == InitUI /\ [][NextUI]_vars

\* The Go scheduler runs the loop's deferred calls and the reader whenever
\* they can take a step; the user owes no further event.
SpecUILive ==
  /\ SpecUI
  /\ WF_vars(LoopCloseDone) /\ WF_vars(LoopStopTick) /\ WF_vars(LoopClose)
  /\ WF_vars(ReaderPollNil) /\ WF_vars(ReaderDone)

\* ------------------------------------------------------ passive catch-up
\* One call of PassiveProductionState.apply, statement by statement, on a
\* producer of any interval and quantity (the engine does not validate the
\* definition it is given): the two early returns, then the loop, one
\* iteration a step.

\* Mutant: only a non-positive interval makes the call return early.
applySkipsRateOnly(p) == p.Definition.ProdRate <= 0

\* The second early return of apply.
applySkips(p) == p.Definition.ProdRate <= 0 \/ p.Definition.ProdQuant <= 0

CatchupLedgers == {[resource \in {} |-> 0], ("ore" :> 1), ("coins" :> 3)}

InitApply ==
  /\ g = NoGame
  /\ defset = cfg
  /\ ui = NoUI
  /\ clock = 0
  /\ file = NoFile
  /\ last = Op("apply", 0, 0, "", 0)
  /\ steps = 0
  /\ calc = NoCalc
  /\ cycle = NoCycle
  /\ \E rate \in -1..MaxRate, quant \in -1..MaxQuant, next \in 0..MaxRate,
        now \in 0..MaxCatchupTime, resources \in CatchupLedgers :
       LET p == [Definition |-> [Resource |-> "ore", ProdRate |-> rate, ProdQuant |-> quant],
                 NextAt |-> next]
       IN catchup = [pc |-> "call", p |-> p, now |-> now, resources |-> resources,
                     credits |-> 0, called |-> [p |-> p, resources |-> resources]]

\* The two early returns.
ApplyEnter ==
  /\ catchup.pc = "call"
  /\ catchup' = [catchup EXCEPT
                   !.pc = IF catchup.now < catchup.p.NextAt \/ applySkips(catchup.p)
                          THEN "returned" ELSE "loop"]
  /\ UNCHANGED <<g, clock, file, last, steps, calc, defset, ui, cycle>>

\* The loop test and one iteration.
ApplyLoop ==
  /\ catchup.pc = "loop"
  /\ catchup' =
       IF ~(catchup.now < catchup.p.NextAt)
       THEN [catchup EXCEPT
               !.resources = Put(@, catchup.p.Definition.Resource,
                                 Get(@, catchup.p.Definition.Resource)
                                   + catchup.p.Definition.ProdQuant),
               !.p.NextAt = @ + catchup.p.Definition.ProdRate,
               !.credits = @ + 1]
       ELSE [catchup EXCEPT !.pc = "returned"]
  /\ UNCHANGED <<g, clock, file, last, steps, calc, defset, ui, cycle>>

NextApply == ApplyEnter \/ ApplyLoop

SpecApply == InitApply /\ [][NextApply]_vars

\* A call that has been made runs on.
SpecApplyLive == SpecApply /\ WF_vars(NextApply)

\* ------------------------------------------------------------- the selection
\* handleKey with the selection of the UI, one key event after the other, on
\* the game of cfg.  The model counts industries and workers from 1, the
\* code from 0: the fields activeIndustry and selectedWorker of ui hold the
\* code's values.
GoMod(a, b) == a - b * GoDiv(a, b)

clamp(value, min, max) ==
  IF value < min THEN min ELSE IF value > max THEN max ELSE value

\* Mutant: the selected worker is kept when the industry changes.
shiftIndustryKeep(u, st, delta) ==
  LET count == Len(st.Industries)
  IN IF count = 0 THEN u
     ELSE [u EXCEPT !.activeIndustry = GoMod(u.activeIndustry + delta + count, count)]

shiftIndustry(u, st, delta) ==
  LET count == Len(st.Industries)
  IN IF count = 0 THEN u
     ELSE [u EXCEPT !.activeIndustry = GoMod(u.activeIndustry + delta + count, count),
                    !.selectedWorker = 0]

shiftWorker(u, st, delta) ==
  LET workers == st.Industries[u.activeIndustry + 1].Workers
  IN IF Len(workers) = 0 THEN u
     ELSE [u EXCEPT !.selectedWorker = clamp(u.selectedWorker + delta, 0, Len(workers) - 1)]

\* loadGame: the selection after key y; it is reset when the load succeeds.
loadGame(u, st, content) ==
  IF LoadFromFileResult(st, content).err # "nil" THEN u
  ELSE [u EXCEPT !.activeIndustry =
                    clamp(u.activeIndustry, 0,
                          Len(LoadFromFileResult(st, content).g.Industries) - 1),
                 !.selectedWorker = 0]

SelectionKeys == {"left", "right", "up", "down", "b", "r", "u", "m", "q", "t", "y"}

InitKeys ==
  /\ g = BuildGame(cfg)
  /\ defset = cfg
  /\ catchup = NoCatchup
  /\ cycle = NoCycle
  /\ ui = [loop |-> "select", reader |-> "none", activeIndustry |-> 0, selectedWorker |-> 0]
  /\ clock = 0
  /\ file = NoFile
  /\ last = Op("BuildGame", 0, 0, "", 0)
  /\ steps = 0
  /\ calc = NoCalc

\* One key event through handleKey.
KeyEvent(key, now) ==
  /\ (key \notin {"r", "q"}) => now = clock
  /\ LET r == handleKey(g, file, key, ui.activeIndustry + 1, ui.selectedWorker + 1, now)
     IN /\ g' = r.g
        /\ file' = r.file
  /\ Bounded(g')
  /\ ui' = CASE key = "left" -> shiftIndustry(ui, g, -1)
              [] key = "right" -> shiftIndustry(ui, g, 1)
              [] key = "up" -> shiftWorker(ui, g, -1)
              [] key = "down" -> shiftWorker(ui, g, 1)
              [] key = "y" -> IF g.DevMode THEN ui ELSE loadGame(ui, g, file)
              [] OTHER -> ui
  /\ clock' = now
  /\ last' = Op("handleKey", ui.activeIndustry, ui.selectedWorker, key, 0)
  /\ UNCHANGED <<steps, calc, defset, catchup, cycle>>

NextKeys == \E key \in SelectionKeys, now \in Times : KeyEvent(key, now)

SpecKeys == InitKeys /\ [][NextKeys]_vars

\* --------------------------------------------------------- ticks without end
\* One worker under ticks that go on for ever.  The time of the latest tick
\* is the origin (clock stays 0 and every cycle-end is kept relative to it),
\* and the coal a tick credits is counted in cycle and taken off the ledger
\* again, which no operation of this specification reads: Update depends
\* on now and the cycle-ends only through their differences.
cfgAuto(rate) ==
  [ StartingResources |-> ("coins" :> 3),
    StartingProduction |-> << >>,
    Industries |-> <<
      [ Key |-> "coal", Resource |-> "coal",
        Workers |-> <<
          [ Key |-> "miner", Produces |-> "coal", ProdRate |-> rate, ProdQuant |-> 1,
            UpgradeMult |-> <<2, 1>>, AutoTier |-> 2, Cost |-> ("coins" :> 1) ] >> ] >> ]

\* The state after a tick with the time of that tick as the new origin.
Rebase(st, delta, coal) ==
  [st EXCEPT
     !.Industries[1].Workers[1].EndsAt = maxInt(@ - delta, ZeroTime),
     !.Resources = IF "coal" \in DOMAIN @ THEN Put(@, "coal", coal) ELSE @]

\* The game as built or with the worker started at time 0, no StartRun
\* after that.
InitAuto ==
  /\ \E rate \in 1..MaxAutoRate :
       /\ defset = cfgAuto(rate)
       /\ g \in {BuildGame(cfgAuto(rate)), StartRunResult(BuildGame(cfgAuto(rate)), 1, 1, 0).g}
       /\ cycle = [produced |-> FALSE, parity |-> 0, since |-> rate, gap |-> 0]
  /\ catchup = NoCatchup
  /\ ui = NoUI
  /\ clock = 0
  /\ file = NoFile
  /\ last = Op("BuildGame", 0, 0, "", 0)
  /\ steps = 0
  /\ calc = NoCalc

\* Update at delta after the latest tick.  cycle records whether the worker
\* produced, the time since its latest production and, when it produced, the
\* time since the production before (both counted up to the interval).
Tick(delta) ==
  LET r == UpdateResult(g, clock + delta)
      rate == WorkerAt(g, 1, 1).Definition.ProdRate
      produced == Get(r.Resources, "coal") # Get(g.Resources, "coal")
      elapsed == minInt(cycle.since + delta, rate)
  IN /\ g' = Rebase(r, delta, Get(g.Resources, "coal"))
     /\ cycle' = [produced |-> produced,
                  parity |-> IF produced THEN 1 - cycle.parity ELSE cycle.parity,
                  since |-> IF produced THEN 0 ELSE elapsed,
                  gap |-> IF produced THEN elapsed ELSE 0]
     /\ last' = Op("Update", 0, 0, "", 0)
     /\ UNCHANGED <<clock, file, steps, calc, defset, ui, catchup>>

NextAuto ==
  \/ \E delta \in 0..MaxDelta : Tick(delta)
  \/ BuyWorker(1, 1) /\ Uncounted
  \/ UpgradeWorker(1, 1) /\ Uncounted
  \/ ToggleBuyMode /\ Uncounted

SpecAuto == InitAuto /\ [][NextAuto]_vars

\* Ticks keep occurring and the clock keeps advancing.
SpecAutoLive == SpecAuto /\ WF_vars(\E delta \in 1..MaxDelta : Tick(delta))

\* -------------------------------------------------------- developer mode
\* The key events on the game of one worker, and somebody who sets the
\* developer-mode field of the save file with a text editor (the program
\* has no other switch for it).
InitDev ==
  /\ g = BuildGame(cfgAuto(1))
  /\ defset = cfgAuto(1)
  /\ catchup = NoCatchup
  /\ cycle = NoCycle
  /\ ui = [loop |-> "select", reader |-> "none", activeIndustry |-> 0, selectedWorker |-> 0]
  /\ clock = 0
  /\ file = NoFile
  /\ last = Op("BuildGame", 0, 0, "", 0)
  /\ steps = 0
  /\ calc = NoCalc

NextDev ==
  \/ NextKeys
  \/ EditSaveFile("devMode") /\ Uncounted

SpecDev == InitDev /\ [][NextDev]_vars

\* ------------------------------------------------------------------- claims
Def(pos) == cfg.Industries[pos[1]].Workers[pos[2]]
Worker(pos) == WorkerAt(g, pos[1], pos[2])
WorkerNext(pos) == WorkerAt(g', pos[1], pos[2])
LastIs(name, pos) == last.op = name /\ last.i = pos[1] /\ last.w = pos[2]
StepIs(name, pos) == last'.op = name /\ last'.i = pos[1] /\ last'.w = pos[2]

\* Some resource of the cost table has a balance below the required amount.
Insufficient(cost, resources) ==
  \E resource \in DOMAIN cost : Get(resources, resource) < cost[resource]

\* C1: with developer mode off (SpecPlay: a game built with non-negative
\* starting resources, driven by Update, StartRun, BuyWorker in both buy
\* modes and UpgradeWorker), every amount of the Resource Ledger is >= 0 in
\* every reachable state.
C1_LedgerNonNegative ==
  ~g.DevMode /\ \A resource \in DOMAIN g.Resources : g.Resources[resource] >= 0

\* A purchase has spent the last coin.
C1_Witness ==
  /\ last.op = "UpgradeWorker" /\ last.status = "upgraded"
  /\ Get(g.Resources, "coins") = 0

\* C2: with developer mode off, BuyWorker and UpgradeWorker return their
\* cannot-afford status exactly when some resource of the cost table (scaled,
\* for the upgrade) has a balance below the required amount, and then the
\* game state is exactly as before the call.
C2_CannotAffordExact ==
  [][\A pos \in Positions :
       /\ (StepIs("BuyWorker", pos) /\ ~g.DevMode) =>
            /\ (last'.status = "cannot afford")
                 <=> Insufficient(Def(pos).Cost, g.Resources)
            /\ (last'.status = "cannot afford") => g' = g
       /\ (StepIs("UpgradeWorker", pos) /\ ~g.DevMode) =>
            LET cost == scaledCost(Def(pos).Cost, Def(pos).UpgradeMult, Worker(pos).Tier)
            IN /\ (last'.status = "cannot afford upgrade")
                    <=> Insufficient(cost, g.Resources)
               /\ (last'.status = "cannot afford upgrade") => g' = g
    ]_vars

\* A buy-max purchase of the driller was refused for want of coal while the
\* coins would have sufficed.
C2_Witness ==
  /\ LastIs("BuyWorker", <<1, 2>>) /\ last.status = "cannot afford"
  /\ ~g.DevMode /\ g.BuyModeMax
  /\ Get(g.Resources, "coins") >= 1 /\ Get(g.Resources, "coal") = 0

\* C3: a successful BuyWorker with purchase count c (c = 1 when buy-max is
\* off) raises the owned-count of the target by exactly c and, outside
\* developer mode, lowers the balance of every resource of the cost table by
\* exactly unit cost * c.
C3_BuyEffect ==
  [][\A pos \in Positions :
       (StepIs("BuyWorker", pos) /\ last'.status = "bought") =>
          /\ ~g.BuyModeMax => last'.count = 1
          /\ WorkerNext(pos).Owned = Worker(pos).Owned + last'.count
          /\ ~g.DevMode =>
               \A resource \in DOMAIN Def(pos).Cost :
                  Get(g'.Resources, resource)
                    = Get(g.Resources, resource) - Def(pos).Cost[resource] * last'.count
    ]_vars

\* Two drillers were bought at once, outside developer mode.
C3_Witness ==
  /\ LastIs("BuyWorker", <<1, 2>>) /\ last.status = "bought" /\ last.count = 2
  /\ ~g.DevMode

\* n units are affordable: n * cost_r <= balance_r for every resource r of the
\* cost table whose unit cost is > 0.
Fits(n, cost, resources) ==
  \A resource \in DOMAIN cost :
     cost[resource] > 0 => n * cost[resource] <= Get(resources, resource)

\* The greatest affordable n (the balances are at most MaxAmount and every
\* cost table has a positive entry, so it lies in 0..MaxAmount + 1).
MaxFit(cost, resources) ==
  CHOOSE n \in 0..(MaxAmount + 1) :
     Fits(n, cost, resources) /\ ~Fits(n + 1, cost, resources)

\* C4: in buy-max mode the purchase count BuyWorker uses is the unique
\* greatest n with n * cost_r <= balance_r for every resource r of positive
\* unit cost (entries of cost 0 and resources absent from the ledger or the
\* table do not constrain); outside developer mode that n (>= 0) is the
\* count, in developer mode the count is n raised to at least 1.
C4_BuyMaxCount ==
  [][\A pos \in Positions :
       (StepIs("BuyWorker", pos) /\ g.BuyModeMax) =>
          LET cost == Def(pos).Cost
              n == MaxFit(cost, g.Resources)
          IN /\ Fits(n, cost, g.Resources) /\ ~Fits(n + 1, cost, g.Resources)
             /\ \A m \in 0..(MaxAmount + 1) :
                  (Fits(m, cost, g.Resources) /\ ~Fits(m + 1, cost, g.Resources)) => m = n
             /\ ~g.DevMode => (last'.count = n /\ n >= 0)
             /\ g.DevMode => (last'.count = maxInt(n, 1) /\ last'.count >= 1)
    ]_vars

\* One cutter was bought in buy-max mode: three coins at two coins apiece,
\* its zero-cost "wood" entry and the absent "wood" balance not constraining.
C4_Witness ==
  /\ LastIs("BuyWorker", <<2, 1>>) /\ last.status = "bought" /\ last.count = 1
  /\ g.BuyModeMax /\ ~g.DevMode
  /\ Get(g.Resources, "coins") = 1 /\ "wood" \in DOMAIN Def(<<2, 1>>).Cost

\* C5: in developer mode BuyWorker and UpgradeWorker always succeed: the
\* ledger is left exactly unchanged, BuyWorker raises the owned-count by at
\* least 1 (a zero buy-max result counts as 1) and UpgradeWorker raises the
\* tier by 1.
C5_DevModeFree ==
  [][\A pos \in Positions :
       /\ (StepIs("BuyWorker", pos) /\ g.DevMode) =>
            /\ last'.status = "bought"
            /\ g'.Resources = g.Resources
            /\ WorkerNext(pos).Owned >= Worker(pos).Owned + 1
            /\ (g.BuyModeMax /\ MaxFit(Def(pos).Cost, g.Resources) = 0)
                 => WorkerNext(pos).Owned = Worker(pos).Owned + 1
       /\ (StepIs("UpgradeWorker", pos) /\ g.DevMode) =>
            /\ last'.status = "upgraded"
            /\ g'.Resources = g.Resources
            /\ WorkerNext(pos).Tier = Worker(pos).Tier + 1
    ]_vars

\* In developer mode and buy-max mode a driller was bought with no coal in
\* the ledger: the affordable count 0 became 1.
C5_Witness ==
  /\ g.DevMode /\ g.BuyModeMax
  /\ LastIs("BuyWorker", <<1, 2>>) /\ last.status = "bought" /\ last.count = 1
  /\ Get(g.Resources, "coal") = 0
  /\ Worker(<<1, 2>>).Owned = 1

\* amount is base * multiplier^(tier - 1) rounded up: the least integer that
\* is not below it.
IsCeilScaled(amount, base, multiplier, tier) ==
  LET num == base * IntPow(multiplier[1], tier - 1)
      den == IntPow(multiplier[2], tier - 1)
  IN amount * den >= num /\ (amount - 1) * den < num

\* C6: a successful UpgradeWorker on a worker at tier t raises the tier by
\* exactly 1 and, outside developer mode, debits every resource r of the cost
\* table by exactly ceil(base_r * multiplier^(t-1)); with base {coins: 10}
\* and multiplier 2 the upgrade costs 10 at tier 1 and 20 at tier 2.
C6_UpgradeCost ==
  [][\A pos \in Positions :
       (StepIs("UpgradeWorker", pos) /\ last'.status = "upgraded") =>
          /\ WorkerNext(pos).Tier = Worker(pos).Tier + 1
          /\ ~g.DevMode =>
               \A resource \in DOMAIN Def(pos).Cost :
                  IsCeilScaled(Get(g.Resources, resource) - Get(g'.Resources, resource),
                               Def(pos).Cost[resource], Def(pos).UpgradeMult,
                               Worker(pos).Tier)
          /\ scaledCost("coins" :> 10, <<2, 1>>, 1) = ("coins" :> 10)
          /\ scaledCost("coins" :> 10, <<2, 1>>, 2) = ("coins" :> 20)
    ]_vars

\* The driller (base {coins: 1, coal: 1}, multiplier 3/2) was upgraded at
\* tier 2, for ceil(1.5) = 2 of each: the game started with 3 coins.
C6_Witness ==
  /\ LastIs("UpgradeWorker", <<1, 2>>) /\ last.status = "upgraded"
  /\ ~g.DevMode
  /\ Worker(<<1, 2>>).Tier = 3
  /\ Get(g.Resources, "coins") = 0

\* C7 as stated: for every multiplier > 0 and positive base cost, the upgrade
\* cost at tier t + 1 is strictly greater than at tier t.
C7_Original ==
  calc.cost > 0 => calc.next > calc.cost

\* C7, amended: the upgrade cost at tier t + 1 is strictly greater than at
\* tier t when the multiplier is >= 2, and never smaller when it is >= 1.
C7_CostIncreasing ==
  calc.cost > 0 =>
     /\ calc.multiplier[1] >= 2 * calc.multiplier[2] => calc.next > calc.cost
     /\ calc.multiplier[1] >= calc.multiplier[2] => calc.next >= calc.cost

\* Base 10, multiplier 2: 20 at tier 2, 40 at tier 3.
C7_Witness ==
  /\ calc.base = 10 /\ calc.multiplier = <<2, 1>> /\ calc.tier = 2
  /\ calc.cost = 20 /\ calc.next = 40

\* The snapshot entry applySnapshot finds for the live worker at pos.
SavedWorker(content, pos) ==
  LET savedIndustry ==
        content.Industries[Lookup(content.Industries, cfg.Industries[pos[1]].Key)]
  IN savedIndustry.Workers[Lookup(savedIndustry.Workers, Def(pos).Key)]

C9_PassiveYield ==
  last.op = "Update" =>
     \A index \in 1..Len(cfg.StartingProduction) :
        LET definition == cfg.StartingProduction[index]
        IN (definition.ProdRate > 0 /\ definition.ProdQuant > 0) =>
              Get(g.Resources, definition.Resource)
                = Get(cfg.StartingResources, definition.Resource)
                  + (clock \div definition.ProdRate) * definition.ProdQuant

\* At time 2 the producer of interval 1 has fired twice and the producer of
\* interval 2 once.
C9_Witness ==
  /\ last.op = "Update" /\ clock = 2
  /\ Get(g.Resources, "ore") = 2 /\ Get(g.Resources, "gem") = 1

\* C10: a load of the snapshot just saved succeeds and leaves owned-counts,
\* tiers, auto flags, balances, next-fire times and the two mode flags as they
\* were before the save, with every worker Idle.
C10_RoundTrip ==
  [][(last'.op = "LoadFromFile" /\ file = <<snapshot(g)>>) =>
        /\ last'.status = "nil"
        /\ \A pos \in Positions :
             /\ WorkerNext(pos).Owned = Worker(pos).Owned
             /\ WorkerNext(pos).Tier = Worker(pos).Tier
             /\ WorkerNext(pos).Auto = Worker(pos).Auto
             /\ ~WorkerNext(pos).Running
        /\ g'.Resources = g.Resources
        /\ \A index \in 1..Len(g.Production) :
             g'.Production[index].NextAt = g.Production[index].NextAt
        /\ g'.BuyModeMax = g.BuyModeMax
        /\ g'.DevMode = g.DevMode
    ]_vars

\* The errors of applySnapshot: the corrupt-save error and the
\* structure-mismatch errors.
CorruptSave == {"save missing resources"}
StructureMismatch ==
  {"save industries mismatch", "save production mismatch",
   "save missing industry", "save missing worker"}

\* C11: a load that fails because a live industry key or a live worker key is
\* missing from the snapshot reports the structure-mismatch error and leaves
\* the whole game state as it was: no worker of any industry, the ledger,
\* the producers and the mode flags are all unchanged.
C11_FailedLoadUnchanged ==
  [][(last'.op = "LoadFromFile"
      /\ last'.status \in {"save missing industry", "save missing worker"}) =>
        /\ last'.status \in StructureMismatch
        /\ g' = g
    ]_vars

\* C12: a load of a snapshot without a resource map fails with the
\* corrupt-save error, and one whose number of industries or of producers
\* differs from the live game's fails with a structure-mismatch error (the
\* resource map is tested first); on each of the three the game state is
\* exactly as before the call.
C12_PreChecks ==
  [][(last'.op = "LoadFromFile" /\ file # NoFile) =>
        LET saved == file[1]
        IN /\ saved.NilResources =>
                (last'.status \in CorruptSave /\ g' = g)
           /\ (~saved.NilResources
               /\ (Len(saved.Industries) # Len(g.Industries)
                   \/ Len(saved.Production) # Len(g.Production))) =>
                (last'.status \in StructureMismatch /\ g' = g)
    ]_vars

\* A load was refused for its number of producers and the miner is still
\* Running (a load that gets as far as the workers stops every one of them).
C12_Witness ==
  /\ last.op = "LoadFromFile" /\ last.status = "save production mismatch"
  /\ Worker(<<1, 1>>).Running
  /\ file # NoFile /\ ~file[1].NilResources
  /\ Len(file[1].Industries) = Len(g.Industries)

\* C13: a load of a snapshot whose version tag is not 1 does not succeed as
\* a version-1 load does (it is rejected, no migration being defined).
C13_VersionChecked ==
  [][(last'.op = "LoadFromFile" /\ file # NoFile /\ file[1].Version # 1) =>
        last'.status # "nil"
    ]_vars

\* C14: StartRun(industry, worker, now) returns the insufficient-ownership
\* status when the owned-count is 0 (tested first), the already-running
\* status when the worker is Running, and changes nothing in both cases;
\* otherwise it reports success and sets the worker Running with
\* cycle-end = now + interval, nothing else.
C14_StartRun ==
  [][\A pos \in Positions :
       StepIs("StartRun", pos) =>
          /\ Worker(pos).Owned = 0 =>
               (last'.status = "need at least 1 worker" /\ g' = g)
          /\ (Worker(pos).Owned # 0 /\ Worker(pos).Running) =>
               (last'.status = "already running" /\ g' = g)
          /\ (Worker(pos).Owned # 0 /\ ~Worker(pos).Running) =>
               /\ last'.status = "cycle started"
               /\ g' = [g EXCEPT
                          !.Industries[pos[1]].Workers[pos[2]].Running = TRUE,
                          !.Industries[pos[1]].Workers[pos[2]].EndsAt =
                             clock' + Def(pos).ProdRate]
    ]_vars

\* The miner, started at time 0, was asked to start again at time 1: its
\* cycle still ends at time 1.
C14_Witness ==
  /\ LastIs("StartRun", <<1, 1>>) /\ last.status = "already running"
  /\ clock = 1 /\ Worker(<<1, 1>>).Running /\ Worker(<<1, 1>>).EndsAt = 1

\* The production target of the worker at pos, and whether findWorkerIndex
\* resolves it to a worker of the same industry.
Target(pos) == Def(pos).Produces
IsWorkerTarget(pos) ==
  \E w \in 1..NumWorkers(g, pos[1]) : Def(<<pos[1], w>>).Key = Target(pos)

\* The workers whose cycle an Update at time now completes.
Done(now) == {pos \in Positions : Worker(pos).Running /\ ~(now < Worker(pos).EndsAt)}

\* The completed workers that credit the ledger entry resource, and those
\* that credit the owned-count of the worker at pos.
LedgerProducers(resource, now) ==
  {q \in Done(now) : ~IsWorkerTarget(q) /\ Target(q) = resource}
WorkerProducers(pos, now) ==
  {q \in Done(now) : q[1] = pos[1] /\ Target(q) = Def(pos).Key}

\* The owned-count of the worker at pos when its turn comes in the loop of
\* an Update at time now (the count before the tick and what the completed
\* producers listed before it have added), and the amount a set of completed
\* workers produces: quantity * owned-count, each read at its completion.
RECURSIVE OwnedAtCompletion(_, _), YieldOf(_, _)
OwnedAtCompletion(pos, now) ==
  Worker(pos).Owned + YieldOf({q \in WorkerProducers(pos, now) : q[2] < pos[2]}, now)
YieldOf(producers, now) ==
  IF producers = {} THEN 0
  ELSE LET q == CHOOSE q \in producers : TRUE
       IN Def(q).ProdQuant * OwnedAtCompletion(q, now) + YieldOf(producers \ {q}, now)

\* What the passive producers credit to resource on an Update at time now.
RECURSIVE PassiveCredit(_, _, _)
PassiveCredit(resource, now, index) ==
  IF index > Len(g.Production) THEN 0
  ELSE LET p == g.Production[index]
           fires == IF p.Definition.Resource # resource \/ now < p.NextAt THEN 0
                    ELSE (now - p.NextAt) \div p.Definition.ProdRate + 1
       IN fires * p.Definition.ProdQuant + PassiveCredit(resource, now, index + 1)

\* C15: on Update(now) a Running worker with now >= cycle-end has its
\* production applied (its target, ledger entry or owned-count, grows by at
\* least quantity * owned-count) and is then Idle if its auto flag is false,
\* Running with cycle-end = now + interval if it is true; a Running worker
\* with now < cycle-end keeps its run state and cycle-end and produces
\* nothing (a target that no completed worker produces is not credited).
C15_RunCycle ==
  [][last'.op = "Update" =>
       /\ \A pos \in Positions :
            /\ pos \in Done(clock') =>
                 /\ IF IsWorkerTarget(pos)
                    THEN \E t \in Positions :
                            /\ t[1] = pos[1] /\ Def(t).Key = Target(pos)
                            /\ WorkerNext(t).Owned
                                 >= Worker(t).Owned + Def(pos).ProdQuant * Worker(pos).Owned
                    ELSE Get(g'.Resources, Target(pos))
                           >= Get(g.Resources, Target(pos))
                              + Def(pos).ProdQuant * Worker(pos).Owned
                 /\ IF Worker(pos).Auto
                    THEN /\ WorkerNext(pos).Running
                         /\ WorkerNext(pos).EndsAt = clock' + Def(pos).ProdRate
                    ELSE ~WorkerNext(pos).Running
            /\ (Worker(pos).Running /\ clock' < Worker(pos).EndsAt) =>
                 /\ WorkerNext(pos).Running
                 /\ WorkerNext(pos).EndsAt = Worker(pos).EndsAt
            /\ WorkerProducers(pos, clock') = {} =>
                 WorkerNext(pos).Owned = Worker(pos).Owned
       /\ \A pos \in Positions :
            (~IsWorkerTarget(pos) /\ LedgerProducers(Target(pos), clock') = {}) =>
               Get(g'.Resources, Target(pos))
                 = Get(g.Resources, Target(pos)) + PassiveCredit(Target(pos), clock', 1)
    ]_vars

\* An Update at time 2 completed the cycle of the auto miner, which runs
\* again until time 3, while the cutter, started at time 1, runs on until
\* time 3.
C15_Witness ==
  /\ last.op = "Update" /\ clock = 2
  /\ Worker(<<1, 1>>).Auto /\ Worker(<<1, 1>>).Running /\ Worker(<<1, 1>>).EndsAt = 3
  /\ Get(g.Resources, "coal") >= 2
  /\ Worker(<<2, 1>>).Running /\ Worker(<<2, 1>>).EndsAt = 3

\* C17: when cycles complete for workers whose target is not a worker key of
\* their own industry, the ledger entry of the target grows by exactly
\* quantity * owned-count (read at completion) for each of them, whether the
\* target is the primary resource of the industry or not, and they change no
\* owned-count.
C17_LedgerYield ==
  [][last'.op = "Update" =>
       /\ \A resource \in DOMAIN g'.Resources \cup {Target(pos) : pos \in Positions} :
            Get(g'.Resources, resource)
              = Get(g.Resources, resource) + PassiveCredit(resource, clock', 1)
                + YieldOf(LedgerProducers(resource, clock'), clock')
       /\ (\A q \in Done(clock') : ~IsWorkerTarget(q)) =>
            \A pos \in Positions : WorkerNext(pos).Owned = Worker(pos).Owned
    ]_vars

\* By an Update at time 2 the miners have made 4 coal (the primary resource
\* of their industry) and the cutter has completed its cycle and made the
\* ledger entry "miner" (not the primary resource of its industry).
C17_Witness ==
  /\ last.op = "Update" /\ clock = 2
  /\ Worker(<<1, 1>>).Owned = 2 /\ Get(g.Resources, "coal") = 4
  /\ Get(g.Resources, "miner") = 1 /\ ~Worker(<<2, 1>>).Running

\* C18: when a cycle completes for a worker whose target is the key of a
\* worker of the same industry, the owned-count of that worker grows by
\* quantity * owned-count of the producer and the ledger is not credited; a
\* target is resolved within the producer's industry only (the cutter's
\* target "miner" is a ledger entry, not the miner of the other industry).
C18_WorkerYield ==
  [][last'.op = "Update" =>
       /\ \A pos \in Positions :
            WorkerNext(pos).Owned
              = Worker(pos).Owned + YieldOf(WorkerProducers(pos, clock'), clock')
       /\ (Done(clock') # {} /\ \A q \in Done(clock') : IsWorkerTarget(q)) =>
            \A resource \in DOMAIN g'.Resources :
               Get(g'.Resources, resource)
                 = Get(g.Resources, resource) + PassiveCredit(resource, clock', 1)
    ]_vars

\* An Update at time 2 completed the cycle of the driller, which made a
\* second miner, and of the cutter, which made the ledger entry "miner".
C18_Witness ==
  /\ last.op = "Update" /\ clock = 2
  /\ Worker(<<1, 2>>).Owned = 1 /\ ~Worker(<<1, 2>>).Running
  /\ Worker(<<1, 1>>).Owned = 2
  /\ Get(g.Resources, "miner") = 1 /\ Get(g.Resources, "coins") = 0

\* The worker of the example was started at 0 s (its cycle ends at 1 s, two
\* units of time) and the step is the Update at 1.5 s.
ExampleTick ==
  /\ last'.op = "Update" /\ clock' = 3
  /\ Worker(<<1, 1>>).Owned = 1
  /\ Worker(<<1, 1>>).Running /\ Worker(<<1, 1>>).EndsAt = 2

\* C16 as stated: interval 1 s, quantity 25, owned 1, started at 0 s; the
\* Update at 1.5 s adds exactly 25 and leaves the worker Idle if it is not
\* auto, Running with cycle-end 2 s if it is.
C16_Original ==
  [][ExampleTick =>
        /\ Get(g'.Resources, "coal") = Get(g.Resources, "coal") + 25
        /\ IF Worker(<<1, 1>>).Auto
           THEN WorkerNext(<<1, 1>>).Running /\ WorkerNext(<<1, 1>>).EndsAt = 4
           ELSE ~WorkerNext(<<1, 1>>).Running
    ]_vars

\* C16, amended: the Update at 1.5 s adds exactly 25 and leaves the worker
\* Idle if it is not auto, Running with cycle-end 2.5 s (now + interval) if
\* it is.
C16_WorkedExample ==
  [][ExampleTick =>
        /\ Get(g'.Resources, "coal") = Get(g.Resources, "coal") + 25
        /\ IF Worker(<<1, 1>>).Auto
           THEN WorkerNext(<<1, 1>>).Running /\ WorkerNext(<<1, 1>>).EndsAt = 5
           ELSE ~WorkerNext(<<1, 1>>).Running
    ]_vars

\* The auto worker after the Update at 1.5 s: 25 coal, Running until 2.5 s.
C16_Witness ==
  /\ last.op = "Update" /\ clock = 3
  /\ Get(g.Resources, "coal") = 25
  /\ Worker(<<1, 1>>).Auto /\ Worker(<<1, 1>>).Running /\ Worker(<<1, 1>>).EndsAt = 5

\* C19: Update is idempotent for times already processed: after an Update at
\* time now, an Update at any time now' <= now leaves the game state exactly
\* as it is (no ledger credit, no change of an owned-count, of a run state
\* or of a next-fire time).
C19_UpdateIdempotent ==
  last.op = "Update" => \A earlier \in 0..clock : UpdateResult(g, earlier) = g

\* The game with the worker list of every industry in the opposite order,
\* and the place of the worker at pos in that game.
Reverse(seq) == [index \in 1..Len(seq) |-> seq[Len(seq) + 1 - index]]
Reversed(st) ==
  [st EXCEPT !.Industries =
     [i \in 1..Len(st.Industries) |->
        [st.Industries[i] EXCEPT !.Workers = Reverse(@)]]]
Mirror(pos) == <<pos[1], NumWorkers(g, pos[1]) + 1 - pos[2]>>

\* C20: the order of the workers of an industry does not affect the
\* simulation: the game with permuted worker lists, given the same operation
\* on the same worker (by key) at the same time, returns the same status and
\* is again the permuted game: same ledger, same owned-count, tier, auto
\* flag and run state of every worker.
C20_OrderIrrelevant ==
  [][/\ last'.op = "Update" => UpdateResult(Reversed(g), clock') = Reversed(g')
     /\ last'.op = "ToggleBuyMode" => Reversed(g').BuyModeMax = ~Reversed(g).BuyModeMax
     /\ \A pos \in Positions :
          LET m == Mirror(pos)
          IN /\ StepIs("StartRun", pos) =>
                  StartRunResult(Reversed(g), m[1], m[2], clock')
                    = [g |-> Reversed(g'), status |-> last'.status]
             /\ StepIs("BuyWorker", pos) =>
                  BuyWorkerResult(Reversed(g), m[1], m[2])
                    = [g |-> Reversed(g'), status |-> last'.status, count |-> last'.count]
             /\ StepIs("UpgradeWorker", pos) =>
                  UpgradeWorkerResult(Reversed(g), m[1], m[2])
                    = [g |-> Reversed(g'), status |-> last'.status]
    ]_vars

\* C21: after every successful load every worker is Idle with no pending
\* cycle-end, whatever its run state was before; no worker produces at the
\* next Update, whenever it comes: the ledger gets the passive credit only
\* and no owned-count changes.
C21_LoadStopsWorkers ==
  (last.op = "LoadFromFile" /\ last.status = "nil") =>
     /\ \A pos \in Positions : ~Worker(pos).Running /\ Worker(pos).EndsAt = ZeroTime
     /\ \A now \in Times :
          LET after == UpdateResult(g, now)
          IN /\ \A pos \in Positions :
                  WorkerAt(after, pos[1], pos[2]).Owned = Worker(pos).Owned
             /\ \A resource \in DOMAIN after.Resources :
                  Get(after.Resources, resource)
                    = Get(g.Resources, resource) + PassiveCredit(resource, now, 1)

\* A load succeeded at time 1 in a session of three operations (StartRun on
\* the miner at time 1, save, load is one): the miner is Idle and no coal has
\* been made.
C21_Witness ==
  /\ last.op = "LoadFromFile" /\ last.status = "nil"
  /\ clock = 1 /\ steps = 3
  /\ Worker(<<1, 1>>).Owned = 1 /\ Get(g.Resources, "coal") = 0

\* C22: BuildGame on a definition set of at most 5 industries succeeds with
\* the first worker of each industry owned once, every other worker not
\* owned, every tier 1, every worker Idle and not auto, the ledger equal to
\* the starting resources and buy-max off; on more than 5 industries it
\* fails and returns no game.
C22_BuildGame ==
  last.op = "BuildGame" =>
     IF Len(defset.Industries) <= 5
     THEN /\ last.status = "nil"
          /\ Len(g.Industries) = Len(defset.Industries)
          /\ \A i \in 1..Len(defset.Industries) :
               /\ Len(g.Industries[i].Workers) = Len(defset.Industries[i].Workers)
               /\ \A w \in 1..Len(defset.Industries[i].Workers) :
                    LET worker == WorkerAt(g, i, w)
                    IN /\ worker.Definition = defset.Industries[i].Workers[w]
                       /\ worker.Owned = (IF w = 1 THEN 1 ELSE 0)
                       /\ worker.Tier = 1
                       /\ ~worker.Running /\ ~worker.Auto
          /\ g.Resources = defset.StartingResources
          /\ ~g.BuyModeMax
     ELSE last.status = "too many industries" /\ g = NoGame

\* BuildGame has built a game of five industries, the first with two
\* workers.
C22_Witness ==
  /\ last.op = "BuildGame" /\ last.status = "nil"
  /\ Len(defset.Industries) = 5
  /\ g # NoGame /\ NumWorkers(g, 1) = 2

\* C23: in UI.Run every step that changes the game, the save file or the
\* clock the engine was last called with is a step of the control loop taking
\* a tick or an event between two draws, every draw is a step of that loop,
\* and a step of the input reader or of the timer leaves all three alone,
\* in every interleaving of ticks and input events.
C23_SingleMutator ==
  [][
      /\ (g' # g \/ file' # file \/ clock' # clock) =>
          (/\ ui'.actor = "loop"
           /\ ui.loop = "select"
           /\ ui'.loop \in {"draw", "closeDone"})
      /\ (ui.loop = "draw" /\ ui'.loop # "draw") =>
          (ui'.actor = "loop" /\ last'.op = "draw" /\ UNCHANGED <<g, file, clock>>)
      /\ (ui'.actor \in {"reader", "timer"}) => UNCHANGED <<g, file, clock, last>>
    ]_vars

\* The loop has bought a worker on key b while a tick and the next input
\* event are both waiting for it.
C23_Witness ==
  /\ last.op = "handleKey" /\ last.status = "b"
  /\ WorkerAt(g, 1, 1).Owned = 2
  /\ ui.tick /\ ui.reader = "select" /\ ui.ev = "u"

\* C24: once the control loop of UI.Run has returned on the quit key, the
\* input reader eventually stops, whether it was inside PollEvent or waiting
\* to hand an event over.
C24_ReaderStops == (ui.loop \in {"closeDone", "stopTick", "close", "exited"}) ~> (ui.reader = "stopped")

\* The reader was inside PollEvent when the loop shut down, got nil from the
\* finalized screen and stopped.
C24_Witness == ui.loop = "exited" /\ ui.reader = "stopped" /\ ui.ev = "nil"

\* C25: after a successful UpgradeWorker the worker's auto flag is true when
\* its threshold is positive and the new tier has reached it; a worker whose
\* threshold is 0 has the flag false after every step, however often it is
\* upgraded.
C25_UpgradeLatch ==
  [][\A pos \in Positions :
       /\ (/\ StepIs("UpgradeWorker", pos) /\ last'.status = "upgraded"
           /\ Worker(pos).Definition.AutoTier > 0
           /\ WorkerNext(pos).Tier >= Worker(pos).Definition.AutoTier) => WorkerNext(pos).Auto
       /\ (Worker(pos).Definition.AutoTier = 0) => ~WorkerNext(pos).Auto
    ]_vars

\* The driller (threshold 0) has just been upgraded to tier 2 and is not
\* auto; the miner (threshold 2) was upgraded to tier 2 before and is.
C25_Witness ==
  /\ LastIs("UpgradeWorker", <<1, 2>>) /\ last.status = "upgraded"
  /\ Worker(<<1, 2>>).Tier = 2 /\ ~Worker(<<1, 2>>).Auto
  /\ Worker(<<1, 1>>).Tier = 2 /\ Worker(<<1, 1>>).Auto

\* ------------------------------------------------------- loading any save file
\* applySnapshot applied to save files of any content that has the live
\* structure: every owned-count, tier and auto flag, the industries and
\* workers in the live order or in the opposite one, a ledger with or
\* without the live keys, and next-fire times in either order.
SavedLedgers == {("coins" :> 3), ("coal" :> 2) @@ ("wood" :> 1)}
SavedNextFires == {<<1, 2>>, <<2, 1>>}

SavedFile(owned, tier, auto, reversed, ledger, next) ==
  LET base == snapshot(BuildGame(cfg))
      filled ==
        [base EXCEPT
           !.Industries =
              [i \in 1..Len(base.Industries) |->
                 [ Key |-> base.Industries[i].Key,
                   Workers |->
                     [w \in 1..Len(base.Industries[i].Workers) |->
                        [ Key |-> base.Industries[i].Workers[w].Key,
                          Owned |-> owned[<<i, w>>],
                          Tier |-> tier[<<i, w>>],
                          Auto |-> auto[<<i, w>>] ]] ]],
           !.Resources = ledger,
           !.Production = [index \in 1..Len(base.Production) |-> [NextAt |-> next[index]]]]
  IN IF reversed
     THEN [filled EXCEPT
             !.Industries =
                Reverse([i \in 1..Len(filled.Industries) |->
                           [filled.Industries[i] EXCEPT !.Workers = Reverse(@)]])]
     ELSE filled

\* The live game at the load: as built, or with the miner Running.
LiveGames == {BuildGame(cfg), StartRunResult(BuildGame(cfg), 1, 1, 0).g}

InitLoad ==
  /\ g \in LiveGames
  /\ defset = cfg
  /\ catchup = NoCatchup
  /\ cycle = NoCycle
  /\ ui = NoUI
  /\ clock = 0
  /\ \E owned \in [PositionsOf(BuildGame(cfg)) -> 0..MaxSavedOwned],
        tier \in [PositionsOf(BuildGame(cfg)) -> 1..MaxSavedTier],
        auto \in [PositionsOf(BuildGame(cfg)) -> BOOLEAN],
        reversed \in BOOLEAN,
        ledger \in SavedLedgers,
        next \in SavedNextFires :
       file = <<SavedFile(owned, tier, auto, reversed, ledger, next)>>
  /\ last = Op("BuildGame", 0, 0, "", 0)
  /\ steps = 0
  /\ calc = NoCalc

NextLoad == LoadFromFile /\ Uncounted

SpecLoad == InitLoad /\ [][NextLoad]_vars

\* C26: on a successful load a worker whose saved auto flag is false and
\* whose saved tier has reached its positive threshold ends with the auto
\* flag true, and a worker whose saved auto flag is true ends with the auto
\* flag true whatever its saved tier.
C26_LoadLatch ==
  [][(last'.op = "LoadFromFile" /\ last'.status = "nil") =>
       \A pos \in Positions :
         LET saved == SavedWorker(file[1], pos)
         IN /\ (/\ ~saved.Auto /\ Def(pos).AutoTier > 0
                /\ saved.Tier >= Def(pos).AutoTier) => WorkerNext(pos).Auto
            /\ saved.Auto => WorkerNext(pos).Auto
    ]_vars

\* The load of a file in which the miner (threshold 2) is auto at tier 1
\* and the cutter (threshold 1) is not auto at tier 1: both are auto.
C26_Witness ==
  /\ last.op = "LoadFromFile" /\ last.status = "nil"
  /\ SavedWorker(file[1], <<1, 1>>).Auto /\ SavedWorker(file[1], <<1, 1>>).Tier = 1
  /\ ~SavedWorker(file[1], <<2, 1>>).Auto /\ SavedWorker(file[1], <<2, 1>>).Tier = 1
  /\ Worker(<<1, 1>>).Auto /\ Worker(<<2, 1>>).Auto
  /\ ~Worker(<<1, 2>>).Auto

\* C29: a successful load gives each live worker the owned-count and tier of
\* the snapshot entry with the same industry key and worker key, and the auto
\* flag that entry determines (its flag, re-evaluated against the threshold),
\* wherever the entry stands in the snapshot; the ledger is the snapshot's
\* ledger (a live resource the snapshot does not list is gone), and the
\* next-fire time of each passive producer is the snapshot's at the same
\* position.
C29_KeyedLoad ==
  [][(last'.op = "LoadFromFile" /\ last'.status = "nil") =>
       /\ \A pos \in Positions :
            \E si \in 1..Len(file[1].Industries) :
              \E sw \in 1..Len(file[1].Industries[si].Workers) :
                LET entry == file[1].Industries[si].Workers[sw]
                IN /\ file[1].Industries[si].Key = g.Industries[pos[1]].Key
                   /\ entry.Key = Worker(pos).Definition.Key
                   /\ WorkerNext(pos).Definition = Worker(pos).Definition
                   /\ WorkerNext(pos).Owned = entry.Owned
                   /\ WorkerNext(pos).Tier = entry.Tier
                   /\ WorkerNext(pos).Auto =
                        (entry.Auto \/ (Worker(pos).Definition.AutoTier > 0
                                        /\ entry.Tier >= Worker(pos).Definition.AutoTier))
       /\ g'.Resources = file[1].Resources
       /\ \A resource \in DOMAIN g.Resources \ DOMAIN file[1].Resources :
            resource \notin DOMAIN g'.Resources
       /\ \A index \in 1..Len(g.Production) :
            /\ g'.Production[index].NextAt = file[1].Production[index].NextAt
            /\ g'.Production[index].Definition = g.Production[index].Definition
    ]_vars

\* The load of a file that lists the industries and the workers in the
\* opposite order, without the coins: the miner has the miner's entry, the
\* driller the driller's, the coins are gone and the first producer has the
\* first next-fire time of the file.
C29_Witness ==
  /\ last.op = "LoadFromFile" /\ last.status = "nil"
  /\ file[1].Industries[1].Key = "wood" /\ file[1].Industries[2].Workers[1].Key = "driller"
  /\ file[1].Industries[2].Workers[1].Owned = 1 /\ file[1].Industries[2].Workers[2].Owned = 0
  /\ Worker(<<1, 1>>).Owned = 0 /\ Worker(<<1, 2>>).Owned = 1
  /\ "coins" \notin DOMAIN g.Resources /\ Get(g.Resources, "coal") = 2
  /\ g.Production[1].NextAt = 2 /\ g.Production[2].NextAt = 1

\* C27: on Update(now) a worker that is Idle, auto and owned before the call
\* is Running after it with cycle-end now + interval, and a tick in which no
\* Running worker has reached its cycle-end produces nothing (no owned-count
\* changes); a worker that is Idle before the call with owned-count 0 or
\* with the auto flag false is Idle after it.
C27_AutoStartGuard ==
  [][last'.op = "Update" =>
       /\ \A pos \in Positions :
            ~Worker(pos).Running =>
               IF Worker(pos).Auto /\ Worker(pos).Owned > 0
               THEN /\ WorkerNext(pos).Running
                    /\ WorkerNext(pos).EndsAt = clock' + Worker(pos).Definition.ProdRate
               ELSE ~WorkerNext(pos).Running
       /\ Done(clock') = {} =>
            \A pos \in Positions : WorkerNext(pos).Owned = Worker(pos).Owned
    ]_vars

\* The state in which apply has returned is the one the claim describes.
CatchupPost ==
  LET p == catchup.p
      before == catchup.called
  IN catchup.pc = "returned" =>
       /\ [p |-> p, resources |-> catchup.resources]
            = apply(before.p, catchup.now, before.resources)
       /\ IF p.Definition.ProdRate > 0 /\ p.Definition.ProdQuant > 0
          THEN /\ p.NextAt > catchup.now
               /\ catchup.credits =
                    IF catchup.now < before.p.NextAt THEN 0
                    ELSE (catchup.now - before.p.NextAt) \div p.Definition.ProdRate + 1
               /\ p.NextAt = before.p.NextAt + catchup.credits * p.Definition.ProdRate
               /\ Get(catchup.resources, "ore")
                    = Get(before.resources, "ore") + catchup.credits * p.Definition.ProdQuant
          ELSE /\ catchup.credits = 0
               /\ catchup.resources = before.resources
               /\ p = before.p

\* C28: every call of the passive catch-up returns; with interval > 0 and
\* quantity > 0 it has made (now - next-fire) div interval + 1 credits (none
\* when now is before next-fire) and next-fire is strictly after now; with
\* interval <= 0 or quantity <= 0 it has changed neither the ledger nor
\* next-fire.
C28_CatchUpTerminates == <>(catchup.pc = "returned") /\ [](CatchupPost)

\* A call that caught up four fires of a producer with interval 1, and so
\* created the ledger entry.
C28_Witness ==
  /\ catchup.pc = "returned" /\ catchup.credits = 4
  /\ catchup.p.Definition.ProdRate = 1 /\ catchup.p.NextAt = 5
  /\ catchup.called.resources = [resource \in {} |-> 0]
  /\ Get(catchup.resources, "ore") = 4 * catchup.p.Definition.ProdQuant

\* C30: in every reachable state (Update with production chains, StartRun,
\* BuyWorker, UpgradeWorker, save, load of saved and of edited files) a
\* Running worker has owned-count >= 1.
C30_RunningOwned ==
  \A pos \in Positions : Worker(pos).Running => Worker(pos).Owned >= 1

\* The driller, bought with the coal of the miner's first cycle, is Running
\* and the game has been saved.
C30_Witness ==
  /\ Worker(<<1, 2>>).Running /\ Worker(<<1, 2>>).Owned = 1
  /\ file # NoFile /\ steps = MaxSteps

\* C31: under the definition set of the worked example (one worker that
\* produces coal), an Update credits quantity * owned-count once when the
\* worker is Running and its cycle-end is reached, however long ago that
\* was, and nothing otherwise; and a Running worker that is not auto either
\* stays Running with the ledger as it was, or becomes Idle in an Update that
\* credits exactly one production.
C31_OneProduction ==
  [][
      \A pos \in Positions :
        LET yield == Worker(pos).Definition.ProdQuant * Worker(pos).Owned
            coal == Get(g.Resources, Worker(pos).Definition.Produces)
            coalNext == Get(g'.Resources, Worker(pos).Definition.Produces)
        IN /\ (last'.op = "Update") =>
                coalNext = coal + (IF Worker(pos).Running /\ ~(clock' < Worker(pos).EndsAt)
                                   THEN yield ELSE 0)
           /\ (Worker(pos).Running /\ ~Worker(pos).Auto /\ ~WorkerNext(pos).Auto) =>
                \/ WorkerNext(pos).Running /\ coalNext = coal
                \/ /\ ~WorkerNext(pos).Running /\ last'.op = "Update"
                   /\ coalNext = coal + yield
    ]_vars

\* The worker was started at 0 s (cycle-end 1 s) and the Update at 3 s, two
\* intervals after the cycle-end, has credited 25 once.
C31_Witness ==
  /\ last.op = "Update" /\ clock = 6
  /\ Worker(<<1, 1>>).EndsAt = 2 /\ ~Worker(<<1, 1>>).Running /\ ~Worker(<<1, 1>>).Auto
  /\ Get(g.Resources, "coal") = 25

\* C32: in every reachable state every worker has owned-count >= 0 and
\* tier >= 1, and no Update, StartRun, BuyWorker or UpgradeWorker step lowers
\* the owned-count or the tier of any worker.
C32_CountsAndTiers ==
  /\ [](\A pos \in Positions : Worker(pos).Owned >= 0 /\ Worker(pos).Tier >= 1)
  /\ [][
        (last'.op \in {"Update", "StartRun", "BuyWorker", "UpgradeWorker"}) =>
           \A pos \in Positions :
             /\ WorkerNext(pos).Owned >= Worker(pos).Owned
             /\ WorkerNext(pos).Tier >= Worker(pos).Tier
      ]_vars

\* The cycle of the driller, bought with the miner's coal, has just raised
\* the owned-count of the miner to 2.
C32_Witness ==
  /\ last.op = "Update" /\ steps = MaxSteps
  /\ Worker(<<1, 1>>).Owned = 2 /\ Worker(<<1, 1>>).Tier = 1
  /\ Worker(<<1, 2>>).Owned = 1 /\ ~Worker(<<1, 2>>).Running
  /\ Get(g.Resources, "coins") = 2

\* C33: in every reachable state, the one BuildGame returns included, every
\* worker whose threshold is > 0 and whose tier has reached it has the auto
\* flag true.
C33_LatchConsistent ==
  \A pos \in Positions :
    (Worker(pos).Definition.AutoTier > 0
     /\ Worker(pos).Tier >= Worker(pos).Definition.AutoTier) => Worker(pos).Auto

\* C34: under ticks with an advancing clock, without StartRun and without
\* load, a worker with the auto flag set and owned-count >= 1 produces again
\* and again (the parity of its productions keeps changing), and when it
\* produces, at least one interval has passed since its production before.
C34_AutoLiveness ==
  /\ \A parity \in {0, 1} :
       (Worker(<<1, 1>>).Auto /\ Worker(<<1, 1>>).Owned >= 1 /\ cycle.parity = parity)
         ~> (cycle.parity = 1 - parity)
  /\ [](cycle.produced => cycle.gap >= Worker(<<1, 1>>).Definition.ProdRate)

\* The auto worker of interval 2 has produced for the second time at least,
\* in a tick that came exactly one interval after its production before.
C34_Witness ==
  /\ Worker(<<1, 1>>).Auto /\ Worker(<<1, 1>>).Definition.ProdRate = 2
  /\ Worker(<<1, 1>>).Running /\ Worker(<<1, 1>>).EndsAt = 2
  /\ cycle.produced /\ cycle.parity = 0 /\ cycle.gap = 2
  /\ last.op = "Update"

\* What no user action changes: the workers other than the one at pos, the
\* definition of that one, the ledger entries outside the set of resources
\* named, the passive producers and the two mode flags.
FrameOutside(pos, resources) ==
  /\ \A other \in Positions \ {pos} : WorkerNext(other) = Worker(other)
  /\ PositionsOf(g') = Positions
  /\ WorkerNext(pos).Definition = Worker(pos).Definition
  /\ \A resource \in (DOMAIN g.Resources \cup DOMAIN g'.Resources) \ resources :
       /\ resource \in DOMAIN g.Resources /\ resource \in DOMAIN g'.Resources
       /\ g'.Resources[resource] = g.Resources[resource]
  /\ g'.Production = g.Production
  /\ g'.BuyModeMax = g.BuyModeMax
  /\ g'.DevMode = g.DevMode

\* C35: StartRun changes only the running flag and the cycle-end of its
\* worker; BuyWorker only the owned-count of its worker and the ledger
\* entries of its cost table; UpgradeWorker only the tier and the auto flag
\* of its worker and the ledger entries of its cost table.  No other worker,
\* no passive producer and neither mode flag changes.
C35_Frame ==
  [][
      \A pos \in Positions :
        LET before == Worker(pos)
            after == WorkerNext(pos)
        IN /\ StepIs("StartRun", pos) =>
                /\ FrameOutside(pos, {})
                /\ after.Owned = before.Owned /\ after.Tier = before.Tier
                /\ after.Auto = before.Auto
           /\ StepIs("BuyWorker", pos) =>
                /\ FrameOutside(pos, DOMAIN before.Definition.Cost)
                /\ after.Tier = before.Tier /\ after.Auto = before.Auto
                /\ after.Running = before.Running /\ after.EndsAt = before.EndsAt
           /\ StepIs("UpgradeWorker", pos) =>
                /\ FrameOutside(pos, DOMAIN before.Definition.Cost)
                /\ after.Owned = before.Owned
                /\ after.Running = before.Running /\ after.EndsAt = before.EndsAt
    ]_vars

\* The driller has been bought in buy-max mode while the miner is Running:
\* the miner runs on, the mode is still buy-max.
C35_Witness ==
  /\ LastIs("BuyWorker", <<1, 2>>) /\ last.status = "bought"
  /\ Worker(<<1, 2>>).Owned >= 1
  /\ Worker(<<1, 1>>).Running /\ g.BuyModeMax

\* C36: after every sequence of key events the active industry index is in
\* [0, number of industries) and the selected worker index is in
\* [0, number of workers of the active industry).
C36_SelectionInRange ==
  /\ 0 <= ui.activeIndustry /\ ui.activeIndustry < Len(g.Industries)
  /\ 0 <= ui.selectedWorker
  /\ ui.selectedWorker < Len(g.Industries[ui.activeIndustry + 1].Workers)

\* Key right pressed with the second worker of the first industry selected:
\* the second industry, which has one worker, is active and its first worker
\* is selected.
C36_Witness ==
  /\ last.op = "handleKey" /\ last.status = "right"
  /\ last.i = 0 /\ last.w = 1
  /\ ui.activeIndustry = 1 /\ ui.selectedWorker = 0

\* C37: developer mode changes only in a load that succeeds; while it is
\* true, the keys for save and load change neither the game nor the save
\* file; once true it is true in every later state; and the file a save
\* writes never has developer mode true.
C37_DevMode ==
  [][
      /\ (g'.DevMode # g.DevMode) =>
           /\ last'.op = "handleKey" /\ last'.status = "y"
           /\ ~g.DevMode /\ LoadFromFileResult(g, file).err = "nil"
      /\ (g.DevMode /\ last'.op = "handleKey" /\ last'.status \in {"t", "y"}) =>
           (g' = g /\ file' = file)
      /\ g.DevMode => g'.DevMode
      /\ (last'.op = "handleKey" /\ last'.status = "t" /\ file' # file) =>
           ~file'[1].DevMode
    ]_vars

\* Developer mode came in with an edited save file; the key for save has
\* just been refused: the file still is the edited one, and it is not what
\* a save of the game as it is now would write.
C37_Witness ==
  /\ g.DevMode /\ last.op = "handleKey" /\ last.status = "t"
  /\ file[1].DevMode /\ file # <<snapshot(g)>>


====
